---------------------------- MODULE Spec2Model ----------------------------
(***************************************************************************)
(* A model of the FABRIC information-model property graph:                 *)
(*   - Neo4jPropertyGraph (fim/graph/neo4j_property_graph.py): the remote  *)
(*     store, its bulk import with retries, and its per-graph operations;  *)
(*   - ABCASMPropertyGraph (fim/graph/slices/abc_asm.py): the cascading    *)
(*     removal of slice-model entities, the add_* operations and the deep  *)
(*     slivers.                                                            *)
(* Spec is the specification of the import into the Neo4j store, SpecStore *)
(* the one of its per-graph operations, SpecValidate the one of            *)
(* validate_graph, SpecASM the one of the removals on the slice-model      *)
(* graph and SpecBuild the one of its construction.  SpecLive is the       *)
(* import call under the fairness of its own steps, SpecPrune the prune of *)
(* a topology through the removals, and SpecDiff the diff of two           *)
(* topologies (modify_test.py).                                            *)
(***************************************************************************)
EXTENDS Integers, Sequences, FiniteSets, TLC

(***************************************************************************)
(* Program constants and bounds                                            *)
(***************************************************************************)
\* neo4j_property_graph.py:45
APOC_RETRY_COUNT == 10

\* Calls of the import operations in one behaviour of Spec.
MaxImports == 1
\* Calls of the import operations in one behaviour of SpecStore.
MaxStoreImports == 2
\* Failed attempts of one import call that leave nodes behind in the store.
MaxResidualFailures == 1
\* Calls of update_node_property / update_node_properties in one behaviour.
MaxUpdates == 1

NoGraphId == "None"
CallerGraphIds == {"g1", "g2"}
\* the values uuid.uuid4() yields, in the order it yields them
UuidSeq == <<"u1", "u2", "u3", "u4">>
GraphIds == CallerGraphIds \cup {UuidSeq[i] : i \in 1..Len(UuidSeq)}

LABEL_GraphNode == "GraphNode"
PROP_GraphID == "GraphID"
PROP_NodeID == "NodeID"
PROP_Class == "Class"
PROP_Type == "Type"

(***************************************************************************)
(* Serialized graphs handed to the import operations.  A graph is a record *)
(* of nodes (index -> property map) and edges <<a, kind, b>> over indexes. *)
(* "bad" is a string networkx cannot parse.                                *)
(***************************************************************************)
GraphStrings == {"GA", "bad"}

\* "GI" is a graph of one node and no edge
StoreGraphStrings == GraphStrings \cup {"GI"}

FileNodes(gs) ==
  IF gs = "GA"
    THEN (1 :> [NodeID |-> "n1", Class |-> "NetworkNode", Type |-> "Server"]) @@
         (2 :> [NodeID |-> "n2", Class |-> "Component", Type |-> "GPU"])
    ELSE IF gs = "GI"
      THEN (1 :> [NodeID |-> "n1", Class |-> "NetworkNode", Type |-> "Server"])
      ELSE <<>>

FileEdges(gs) == IF gs = "GA" THEN {<<1, "has", 2>>} ELSE {}

Parseable(gs) == gs # "bad"

(***************************************************************************)
(* State                                                                   *)
(***************************************************************************)
VARIABLES
  store,      \* nodes of the Neo4j database: [uid, labels, props]
  rels,       \* relationships of the database: [a, b, kind] over uids
  files,      \* names of the files present in the host import directory
  ncalls,     \* import calls made so far (names the staged files)
  nuuid,      \* values drawn from uuid4 for graph ids so far
  nupdates,   \* update calls made so far
  call,       \* the operation in flight or last finished, with its arguments
  pc,         \* position in the operation: idle, loop, delete, sleep, done
  retry,      \* import_graph_from_string: local variable retry
  assigned_id,\* import_graph_from_string: local variable assigned_id
  host_file,  \* import_graph_from_string: local variable host_file_name
  attempts,   \* calls of _import_graph made by the import call in flight
  succeeded,  \* whether one of those calls returned normally
  residuals,  \* failed attempts of the call that left nodes behind
  loaded,     \* uids created by the latest _import_graph call
  fresh_id,   \* whether no node carried assigned_id when the call started
  result,     \* outcome of the last operation
  ret,        \* value returned by the last operation
  err_gid,    \* graph_id carried by the exception raised, if any
  gnodes,     \* slice-model graph: the node ids present
  gedges,     \* slice-model graph: its links [ends, rel]
  acall,      \* slice-model operation in flight or last finished
  astack,     \* its call stack: frames [fn, id, phase, todo], innermost last
  aresult,    \* its outcome: none, running, returned, raised
  nremovals,  \* slice-model calls made so far
  debug,      \* Python's __debug__: whether assert statements are executed
  aret,       \* the sliver the last call returned, if it returned one
  g0nodes,    \* the nodes when the operation was called
  g0edges,    \* the links when the operation was called
  nrules,     \* _validate_graph: rules of the rules file run so far
  vtodo,      \* _validate_all_json_properties: <<node, property>> left to check
  err,        \* what the exception raised by validate_graph carries
  topoA,      \* the topology before the modifications
  topoB,      \* the topology loaded from topoA's serialization, then modified
  nedits,     \* modifications made to topoB so far
  diff_res    \* what topoA.diff(topoB) returned, once called

nvars == <<store, rels, files, ncalls, nuuid, nupdates, call, pc, retry,
           assigned_id, host_file, attempts, succeeded, residuals, loaded,
           fresh_id, result, ret, err_gid>>

avars == <<gnodes, gedges, acall, astack, aresult, nremovals, g0nodes,
           g0edges, debug, aret>>

wvars == <<nrules, vtodo, err>>

dvars == <<topoA, topoB, nedits, diff_res>>

vars == <<nvars, avars, wvars, dvars>>

NoCall == [op |-> "none"]

NoError == [kind |-> "none"]

NoSliver == [kind |-> "none"]

NoDiff == [kind |-> "none"]

\* a topology: its nodes, their components <<node, name>>, its network
\* services and the interfaces <<service, name>> connected to them
EmptyTopology == [nodes |-> {}, components |-> {}, services |-> {},
                  interfaces |-> {}]

InitNoTopology ==
  /\ topoA = EmptyTopology
  /\ topoB = EmptyTopology
  /\ nedits = 0
  /\ diff_res = NoDiff

\* no operation of the graph store has been called yet
InitNoCall ==
  /\ files = {}
  /\ ncalls = 0
  /\ nuuid = 0
  /\ nupdates = 0
  /\ call = NoCall
  /\ pc = "idle"
  /\ retry = 0
  /\ assigned_id = NoGraphId
  /\ host_file = 0
  /\ attempts = 0
  /\ succeeded = FALSE
  /\ residuals = 0
  /\ loaded = {}
  /\ fresh_id = TRUE
  /\ result = "none"
  /\ ret = [kind |-> "none"]
  /\ err_gid = NoGraphId
  /\ nrules = 0
  /\ vtodo = <<>>
  /\ err = NoError

InitIdle == InitNoCall /\ InitNoTopology

InitStore ==
  /\ store = {}
  /\ rels = {}
  /\ InitIdle

InitGraphEmpty ==
  /\ gnodes = {}
  /\ gedges = {}
  /\ acall = NoCall
  /\ astack = <<>>
  /\ aresult = "none"
  /\ nremovals = 0
  /\ g0nodes = {}
  /\ g0edges = {}
  /\ debug = TRUE
  /\ aret = NoSliver

Init == InitStore /\ InitGraphEmpty

\* No operation is in flight: the layer is synchronous and single-threaded.
Quiescent == pc \in {"idle", "done"}

(***************************************************************************)
(* Cypher patterns                                                         *)
(***************************************************************************)
HasProp(n, k, v) == k \in DOMAIN n.props /\ n.props[k] = v

\* MATCH (n {GraphID: $graphId})
MatchGraph(s, gid) == {n \in s : HasProp(n, PROP_GraphID, gid)}

\* MATCH (n:GraphNode {GraphID: $graphId})
MatchGraphNodes(s, gid) ==
  {n \in s : LABEL_GraphNode \in n.labels /\ HasProp(n, PROP_GraphID, gid)}

\* MATCH (n:GraphNode {GraphID: $graphId, NodeID: $nodeId})
MatchNode(s, gid, nid) ==
  {n \in MatchGraphNodes(s, gid) : HasProp(n, PROP_NodeID, nid)}

Uids(s) == {n.uid : n \in s}

MaxUid(s) == IF s = {} THEN 0 ELSE CHOOSE u \in Uids(s) : \A v \in Uids(s) : v <= u

\* detach delete: the relationships touching a deleted node go with it
Detach(r, gone) == {e \in r : e.a \notin Uids(gone) /\ e.b \notin Uids(gone)}


(***************************************************************************)
(* _prep_graph and _import_graph                                           *)
(***************************************************************************)
\* _prep_graph: graph_id, or the next uuid4 when the caller gave none
PrepGraphId(graph_id, k) ==
  IF graph_id = NoGraphId THEN UuidSeq[k + 1] ELSE graph_id

\* _prep_graph: g.nodes[n]['GraphID'] = graph_id
Stamp(props, gid) ==
  [k \in DOMAIN props \cup {PROP_GraphID} |->
     IF k = PROP_GraphID THEN gid ELSE props[k]]

\* the nodes apoc.import.graphml creates for the file nodes `sub` of a staged
\* file whose nodes were stamped with gid; they carry no label yet
BulkLoadNodes(s, gs, sub, gid) ==
  {[uid |-> MaxUid(s) + i, labels |-> {},
    props |-> Stamp(FileNodes(gs)[i], gid)] : i \in sub}

\* the relationships it creates between them
BulkLoadRels(s, gs, sub) ==
  {[a |-> MaxUid(s) + e[1], kind |-> e[2], b |-> MaxUid(s) + e[3],
    props |-> <<>>] :
     e \in {f \in FileEdges(gs) : f[1] \in sub /\ f[3] \in sub}}

\* MATCH (n {GraphID: $graphId }) SET n:GraphNode
SetGraphNodeLabel(s, gid) ==
  {IF HasProp(n, PROP_GraphID, gid)
     THEN [n EXCEPT !.labels = @ \cup {LABEL_GraphNode}] ELSE n : n \in s}

AddClassLabels_NoLabel(s, gid) == s

\* MATCH (n {GraphID: $graphId }) CALL apoc.create.addLabels([id(n)], [n.Class])
AddClassLabels(s, gid) ==
  {IF HasProp(n, PROP_GraphID, gid) /\ PROP_Class \in DOMAIN n.props
     THEN [n EXCEPT !.labels = @ \cup {n.props[PROP_Class]}] ELSE n : n \in s}

\* The steps at which one call of _import_graph can stop with an error, and
\* "none" when it returns normally.
ImportStops == {"load", "mark", "promote", "none"}

\* The file nodes the bulk loader has created when the call stops at `stop`:
\* the loader reads the file in order, and a failing bulk load may have
\* committed any proper prefix of its nodes.
ProperPrefixes(gs) ==
  {1..k : k \in 0..(Cardinality(DOMAIN FileNodes(gs)) - 1)}

LoadedParts(gs, stop) ==
  IF stop = "load" THEN ProperPrefixes(gs) ELSE {DOMAIN FileNodes(gs)}

\* the store after a call of _import_graph that stops at `stop`
ImportGraphStore(s, gs, gid, stop, sub) ==
  LET l == s \cup BulkLoadNodes(s, gs, sub, gid)
      m == SetGraphNodeLabel(l, gid)
  IN CASE stop \in {"load", "mark"} -> l
       [] stop = "promote" -> m
       [] OTHER -> AddClassLabels(m, gid)

\* import_graph_from_string, line 196; the variant forgets the decrement
RetryAfterFailure_NoDecrement(r) == r

RetryAfterFailure(r) == r - 1

\* delete_graph: match (n:GraphNode {GraphID: $graphId}) detach delete n
DeleteGraphStore(s, gid) == s \ MatchGraphNodes(s, gid)

DeleteGraphRels(s, r, gid) == Detach(r, s \ DeleteGraphStore(s, gid))

(***************************************************************************)
(* import_graph_from_string                                                *)
(***************************************************************************)
ImportGraphFromString(gs, graph_id) ==
  /\ Quiescent
  /\ call' = [op |-> "import_graph_from_string", graph_string |-> gs,
              graph_id |-> graph_id]
  /\ ncalls' = ncalls + 1
  /\ nuuid' = IF graph_id = NoGraphId THEN nuuid + 1 ELSE nuuid
  /\ attempts' = 0
  /\ succeeded' = FALSE
  /\ residuals' = 0
  /\ loaded' = {}
  /\ ret' = [kind |-> "none"]
  /\ IF Parseable(gs)
       THEN /\ assigned_id' = PrepGraphId(graph_id, nuuid)
            /\ host_file' = ncalls + 1
            /\ files' = files \cup {ncalls + 1}
            /\ fresh_id' = (MatchGraph(store, PrepGraphId(graph_id, nuuid)) = {})
            /\ retry' = APOC_RETRY_COUNT
            /\ pc' = "loop"
            /\ result' = "none"
            /\ err_gid' = NoGraphId
       ELSE \* nx.read_graphml raises: "NetworkX graph error"
            /\ result' = "raised_networkx"
            /\ err_gid' = graph_id
            /\ pc' = "done"
            /\ assigned_id' = NoGraphId
            /\ host_file' = 0
            /\ fresh_id' = TRUE
            /\ retry' = 0
            /\ UNCHANGED files
  /\ UNCHANGED <<store, rels, nupdates>>

\* One pass of the body of the while loop up to the end of the try block,
\* with a bulk loader whose calls stop at one of `stops`.
AttemptStopping(stops) ==
  /\ pc = "loop"
  /\ retry > 0
  /\ \E stop \in stops :
       \E sub \in LoadedParts(call.graph_string, stop) :
         LET leaves == stop \in {"load", "mark"} /\ sub # {}
         IN /\ leaves => residuals < MaxResidualFailures
            /\ store' = ImportGraphStore(store, call.graph_string, assigned_id,
                                         stop, sub)
            /\ rels' = rels \cup BulkLoadRels(store, call.graph_string, sub)
            /\ loaded' = Uids(BulkLoadNodes(store, call.graph_string, sub,
                                            assigned_id))
            /\ attempts' = attempts + 1
            /\ residuals' = IF leaves THEN residuals + 1 ELSE residuals
            /\ IF stop = "none"
                 THEN /\ retry' = -1
                      /\ succeeded' = TRUE
                      /\ pc' = "loop"
                 ELSE /\ retry' = RetryAfterFailure(retry)
                      /\ succeeded' = succeeded
                      /\ pc' = "delete"
  /\ UNCHANGED <<files, ncalls, nuuid, nupdates, call, assigned_id, host_file,
                 fresh_id, result, ret, err_gid>>

Attempt == AttemptStopping(ImportStops)

\* the same pass when the bulk loader and the database do not fail
AttemptLoaded == AttemptStopping({"none"})

DeleteBetweenAttempts_NoSleep ==
  /\ pc = "delete"
  /\ store' = DeleteGraphStore(store, assigned_id)
  /\ rels' = DeleteGraphRels(store, rels, assigned_id)
  /\ pc' = "loop"
  /\ UNCHANGED <<result, err_gid>>
  /\ UNCHANGED <<files, ncalls, nuuid, nupdates, call, retry, assigned_id,
                 host_file, attempts, succeeded, residuals, loaded, fresh_id,
                 ret>>

\* self.delete_graph(graph_id=assigned_id) in the except block; an error of
\* the driver is not a PropertyGraphImportException and leaves the function.
DeleteBetweenAttempts ==
  /\ pc = "delete"
  /\ \/ /\ store' = DeleteGraphStore(store, assigned_id)
        /\ rels' = DeleteGraphRels(store, rels, assigned_id)
        /\ pc' = "sleep"
        /\ UNCHANGED <<result, err_gid>>
     \/ /\ pc' = "done"
        /\ result' = "raised_driver"
        /\ err_gid' = NoGraphId
        /\ UNCHANGED <<store, rels>>
  /\ UNCHANGED <<files, ncalls, nuuid, nupdates, call, retry, assigned_id,
                 host_file, attempts, succeeded, residuals, loaded, fresh_id,
                 ret>>

\* a sleep that never comes back to the loop
Sleep_NoWake ==
  /\ pc = "sleep"
  /\ UNCHANGED <<store, rels, files, ncalls, nuuid, nupdates, call, pc, retry,
                 assigned_id, host_file, attempts, succeeded, residuals,
                 loaded, fresh_id, result, ret, err_gid>>

\* time.sleep(1.0)
Sleep ==
  /\ pc = "sleep"
  /\ pc' = "loop"
  /\ UNCHANGED <<store, rels, files, ncalls, nuuid, nupdates, call, retry,
                 assigned_id, host_file, attempts, succeeded, residuals,
                 loaded, fresh_id, result, ret, err_gid>>

\* After the loop: os.unlink(host_file_name), then raise or return.
FinishImport ==
  /\ pc = "loop"
  /\ retry <= 0
  /\ files' = files \ {host_file}
  /\ pc' = "done"
  /\ IF retry = 0
       THEN /\ result' = "raised_terminal"
            /\ err_gid' = call.graph_id
            /\ UNCHANGED ret
       ELSE /\ result' = "returned"
            /\ ret' = [kind |-> "id", v |-> assigned_id]
            /\ UNCHANGED err_gid
  /\ UNCHANGED <<store, rels, ncalls, nuuid, nupdates, call, retry,
                 assigned_id, host_file, attempts, succeeded, residuals,
                 loaded, fresh_id>>

(***************************************************************************)
(* import_graph_from_string_direct, import_graph_from_file_direct          *)
(***************************************************************************)
\* The local variables of import_graph_from_string do not outlive its call.
ImportLocalsGone ==
  /\ retry' = 0
  /\ assigned_id' = NoGraphId
  /\ attempts' = 0
  /\ succeeded' = FALSE
  /\ residuals' = 0
  /\ loaded' = {}
  /\ fresh_id' = TRUE

\* The nodes the bulk loader creates from a file that is loaded as it is: the
\* file carries its own GraphID and, when `labelled`, its own labels.
DirectLoadNodes(s, gs, sub, gid, labelled) ==
  {[uid |-> MaxUid(s) + i,
    labels |-> IF labelled
                 THEN {LABEL_GraphNode, FileNodes(gs)[i][PROP_Class]} ELSE {},
    props |-> Stamp(FileNodes(gs)[i], gid)] : i \in sub}

\* What both direct imports do once the staged file `name` is written: the
\* bulk-loader call, then either the raise (line 237 / 283) or the unlink.
DirectImport(op, gs, gid, labelled) ==
  /\ Quiescent
  /\ call' = [op |-> op, graph_string |-> gs, graph_id |-> gid,
              labelled |-> labelled]
  /\ ncalls' = ncalls + 1
  /\ host_file' = ncalls + 1
  /\ pc' = "done"
  /\ ret' = [kind |-> "none"]
  /\ err_gid' = NoGraphId
  /\ \E ok \in IF Parseable(gs) THEN BOOLEAN ELSE {FALSE} :
       \E sub \in IF ok THEN {DOMAIN FileNodes(gs)}
                        ELSE IF Parseable(gs) THEN ProperPrefixes(gs) ELSE {{}} :
         /\ store' = store \cup DirectLoadNodes(store, gs, sub, gid, labelled)
         /\ rels' = rels \cup BulkLoadRels(store, gs, sub)
         /\ IF ok
              THEN /\ files' = (files \cup {ncalls + 1}) \ {ncalls + 1}
                   /\ result' = "returned"
              ELSE /\ files' = files \cup {ncalls + 1}
                   /\ result' = "raised_import"
  /\ ImportLocalsGone
  /\ UNCHANGED <<nuuid, nupdates>>

ImportGraphFromStringDirect(gs, gid, labelled) ==
  DirectImport("import_graph_from_string_direct", gs, gid, labelled)

ImportGraphFromFileDirect(gs, gid, labelled) ==
  DirectImport("import_graph_from_file_direct", gs, gid, labelled)

(***************************************************************************)
(* Operations addressed to one graph id                                    *)
(***************************************************************************)
NodeIds == {"n1", "n2"}

\* An operation that is one query: what is left of the state afterwards.
Finished(c, res, rv, eg) ==
  /\ call' = c
  /\ pc' = "done"
  /\ result' = res
  /\ ret' = rv
  /\ err_gid' = eg
  /\ host_file' = 0
  /\ ImportLocalsGone
  /\ UNCHANGED <<files, ncalls, nuuid>>

DeleteGraph(gid) ==
  /\ Quiescent
  /\ \/ /\ store' = DeleteGraphStore(store, gid)
        /\ rels' = DeleteGraphRels(store, rels, gid)
        /\ Finished([op |-> "delete_graph", graph_id |-> gid], "returned",
                    [kind |-> "none"], NoGraphId)
     \/ /\ UNCHANGED <<store, rels>>
        /\ Finished([op |-> "delete_graph", graph_id |-> gid], "raised_driver",
                    [kind |-> "none"], NoGraphId)
  /\ UNCHANGED nupdates

\* match (n) detach delete n
DeleteAllGraphs ==
  /\ Quiescent
  /\ store' = {}
  /\ rels' = {}
  /\ Finished([op |-> "delete_all_graphs"], "returned", [kind |-> "none"],
              NoGraphId)
  /\ UNCHANGED nupdates

\* MATCH (n {GraphID: $graphId}) RETURN collect(n.NodeID): one row always,
\* the NodeIDs with their multiplicities
CollectNodeIds(s, gid) ==
  LET m == {n \in MatchGraph(s, gid) : PROP_NodeID \in DOMAIN n.props}
  IN [nid \in {n.props[PROP_NodeID] : n \in m} |->
        Cardinality({n \in m : n.props[PROP_NodeID] = nid})]

ListAllNodeIds(gid) ==
  /\ Quiescent
  /\ Finished([op |-> "list_all_node_ids", graph_id |-> gid], "returned",
              [kind |-> "node_ids", v |-> CollectNodeIds(store, gid)],
              NoGraphId)
  /\ UNCHANGED <<store, rels, nupdates>>

GetNodeProperties(gid, nid) ==
  /\ Quiescent
  /\ LET c == [op |-> "get_node_properties", graph_id |-> gid]
     IN IF MatchNode(store, gid, nid) = {}
          THEN Finished(c, "raised_query", [kind |-> "none"], gid)
          ELSE \E n \in MatchNode(store, gid, nid) :
                 Finished(c, "returned", [kind |-> "props", v |-> n.props],
                          NoGraphId)
  /\ UNCHANGED <<store, rels, nupdates>>

\* SET s += {...}: the keys given are written, the others kept
SetProps(props, new) ==
  [k \in DOMAIN props \cup DOMAIN new |->
     IF k \in DOMAIN new THEN new[k] ELSE props[k]]

\* MATCH (s:GraphNode {GraphID: $graphId, NodeID: $nodeId}) SET s += {...}
UpdateStore(s, gid, nid, new) ==
  {IF n \in MatchNode(s, gid, nid)
     THEN [n EXCEPT !.props = SetProps(@, new)] ELSE n : n \in s}

UpdateNames == {PROP_Class, PROP_Type, PROP_GraphID, PROP_NodeID}

UpdateValues(k) ==
  CASE k = PROP_Class -> {"NewClass"}
    [] k = PROP_Type -> {"NewServer"}
    [] k = PROP_GraphID -> {"g2"}
    [] k = PROP_NodeID -> {"n2"}

\* the dictionaries handed to update_node_properties: one key, or Type
\* together with another key
UpdateDicts ==
  UNION {{d \in [D -> UNION {UpdateValues(k) : k \in D}] :
            \A k \in D : d[k] \in UpdateValues(k)} :
         D \in {E \in SUBSET UpdateNames :
                  Cardinality(E) = 1 \/ (Cardinality(E) = 2 /\ PROP_Type \in E)}}

UpdateNode(c, gid, nid, new) ==
  /\ Quiescent
  /\ nupdates' = nupdates + 1
  /\ IF MatchNode(store, gid, nid) = {}
       THEN /\ Finished(c, "raised_query", [kind |-> "none"], gid)
            /\ UNCHANGED store
       ELSE /\ Finished(c, "returned", [kind |-> "none"], NoGraphId)
            /\ store' = UpdateStore(store, gid, nid, new)
  /\ UNCHANGED rels

UpdateNodeProperty(gid, nid, prop_name, prop_val) ==
  UpdateNode([op |-> "update_node_property", graph_id |-> gid,
              props |-> (prop_name :> prop_val)],
             gid, nid, prop_name :> prop_val)

UpdateNodeProperties(gid, nid, props) ==
  UpdateNode([op |-> "update_node_properties", graph_id |-> gid,
              props |-> props], gid, nid, props)

(***************************************************************************)
(* Link properties                                                         *)
(***************************************************************************)
RelKinds == {"has"}

\* the key get_link_properties writes in its node patterns (lines 428-429)
PROP_GraphId == "GraphId"

NodeOf(s, u) == CHOOSE n \in s : n.uid = u

\* (a:GraphNode {<key>: $graphId, NodeID: $nodeA}) -[r:kind]-
\* (b:GraphNode {<key>: $graphId, NodeID: $nodeB}), in either direction
MatchLink(s, r, key, gid, node_a, node_b, kind) ==
  LET End(u, nid) == /\ LABEL_GraphNode \in NodeOf(s, u).labels
                     /\ HasProp(NodeOf(s, u), key, gid)
                     /\ HasProp(NodeOf(s, u), PROP_NodeID, nid)
  IN {e \in r : /\ e.kind = kind
                /\ \/ End(e.a, node_a) /\ End(e.b, node_b)
                   \/ End(e.b, node_a) /\ End(e.a, node_b)}

GetLinkProperties(gid, node_a, node_b, kind) ==
  /\ Quiescent
  /\ LET c == [op |-> "get_link_properties", graph_id |-> gid,
               node_a |-> node_a, node_b |-> node_b, kind |-> kind]
         m == MatchLink(store, rels, PROP_GraphId, gid, node_a, node_b, kind)
     IN IF m = {}
          THEN Finished(c, "raised_query", [kind |-> "none"], gid)
          ELSE \E e \in m :
                 Finished(c, "returned", [kind |-> "props", v |-> e.props],
                          NoGraphId)
  /\ UNCHANGED <<store, rels, nupdates>>

\* update_link_property (lines 498-500) and update_link_properties (lines
\* 530-531) send "... -[r:kind]- ... SET s+= {...}": the statement names a
\* variable s that no pattern binds, and the database rejects it.
UpdateLinkStatementAccepted == FALSE

UpdateLink(op, gid, node_a, node_b, kind) ==
  /\ Quiescent
  /\ ~UpdateLinkStatementAccepted
  /\ Finished([op |-> op, graph_id |-> gid, node_a |-> node_a,
               node_b |-> node_b, kind |-> kind], "raised_driver",
              [kind |-> "none"], NoGraphId)
  /\ UNCHANGED <<store, rels, nupdates>>

UpdateLinkProperty(gid, node_a, node_b, kind) ==
  UpdateLink("update_link_property", gid, node_a, node_b, kind)

UpdateLinkProperties(gid, node_a, node_b, kind) ==
  UpdateLink("update_link_properties", gid, node_a, node_b, kind)

(***************************************************************************)
(* The Neo4j store                                                         *)
(***************************************************************************)
\* The store with its import paths: the bulk loader and the database may
\* fail at any step.
Next ==
  \/ /\ ncalls < MaxImports
     /\ \E gs \in GraphStrings, gid \in CallerGraphIds \cup {NoGraphId} :
          ImportGraphFromString(gs, gid)
     /\ UNCHANGED <<avars, wvars, dvars>>
  \/ Attempt /\ UNCHANGED <<avars, wvars, dvars>>
  \/ DeleteBetweenAttempts /\ UNCHANGED <<avars, wvars, dvars>>
  \/ Sleep /\ UNCHANGED <<avars, wvars, dvars>>
  \/ FinishImport /\ UNCHANGED <<avars, wvars, dvars>>
  \/ /\ ncalls < MaxImports
     /\ \E gs \in GraphStrings, gid \in CallerGraphIds, labelled \in BOOLEAN :
          ImportGraphFromStringDirect(gs, gid, labelled)
     /\ UNCHANGED <<avars, wvars, dvars>>
  \/ /\ ncalls < MaxImports
     /\ \E gs \in GraphStrings, gid \in CallerGraphIds, labelled \in BOOLEAN :
          ImportGraphFromFileDirect(gs, gid, labelled)
     /\ UNCHANGED <<avars, wvars, dvars>>
  \/ /\ \E gid \in CallerGraphIds : DeleteGraph(gid)
     /\ UNCHANGED <<avars, wvars, dvars>>
  \/ DeleteAllGraphs /\ UNCHANGED <<avars, wvars, dvars>>
  \/ /\ \E gid \in CallerGraphIds : ListAllNodeIds(gid)
     /\ UNCHANGED <<avars, wvars, dvars>>
  \/ /\ \E gid \in CallerGraphIds, nid \in NodeIds : GetNodeProperties(gid, nid)
     /\ UNCHANGED <<avars, wvars, dvars>>

Spec == Init /\ [][Next]_vars

\* A step of the call of import_graph_from_string in progress.  The call is
\* one sequential Python function (lines 187-209): the interpreter goes on
\* to its next statement, the bulk loader call returns or raises, and
\* time.sleep(1.0) returns, so a step that stays possible is taken.
ImportStep ==
  /\ \/ Attempt
     \/ DeleteBetweenAttempts
     \/ Sleep
     \/ FinishImport
  /\ UNCHANGED <<avars, wvars, dvars>>

\* The calls of import_graph_from_string alone: the other operations run
\* between two calls, never during one, and the loop reads nothing they
\* write.
NextLive ==
  \/ /\ ncalls < MaxImports
     /\ \E gs \in GraphStrings, gid \in CallerGraphIds \cup {NoGraphId} :
          ImportGraphFromString(gs, gid)
     /\ UNCHANGED <<avars, wvars, dvars>>
  \/ ImportStep

SpecLive == Init /\ [][NextLive]_vars /\ WF_vars(ImportStep)

\* serialize_graph, line 546: match(n {GraphID: "g"}) -[r]- (m) return n, r, m.
\* The rows of the inner query: n a node of the graph, r a relationship at n
\* and m its other end.
ExportRows(s, r, gid) ==
  {<<n, e, m>> \in MatchGraph(s, gid) \X r \X s :
     \/ e.a = n.uid /\ e.b = m.uid
     \/ e.b = n.uid /\ e.a = m.uid}

\* apoc.export.graphml.query: the nodes and relationships of the rows
ExportGraphml(s, r, gid) ==
  [nodes |-> {[id |-> row[1].uid, props |-> row[1].props] :
                row \in ExportRows(s, r, gid)} \cup
             {[id |-> row[3].uid, props |-> row[3].props] :
                row \in ExportRows(s, r, gid)},
   edges |-> {[a |-> row[2].a, kind |-> row[2].kind, b |-> row[2].b] :
                row \in ExportRows(s, r, gid)}]

\* serialize_graph: lines 545-556
SerializeGraph(gid) ==
  /\ Quiescent
  /\ Finished([op |-> "serialize_graph", graph_id |-> gid], "returned",
              [kind |-> "graphml", v |-> ExportGraphml(store, rels, gid)],
              NoGraphId)
  /\ UNCHANGED <<store, rels, nupdates>>

\* The operations addressed to one graph id, on a store whose graphs were
\* imported with a bulk loader that did not fail.
NextStore ==
  \/ /\ ncalls < MaxStoreImports
     /\ \E gs \in StoreGraphStrings, gid \in CallerGraphIds \cup {NoGraphId} :
          ImportGraphFromString(gs, gid)
     /\ UNCHANGED <<avars, wvars, dvars>>
  \/ AttemptLoaded /\ UNCHANGED <<avars, wvars, dvars>>
  \/ FinishImport /\ UNCHANGED <<avars, wvars, dvars>>
  \/ /\ ncalls < MaxStoreImports
     /\ \E gs \in StoreGraphStrings, gid \in CallerGraphIds,
           labelled \in BOOLEAN :
          ImportGraphFromStringDirect(gs, gid, labelled)
     /\ UNCHANGED <<avars, wvars, dvars>>
  \/ /\ \E gid \in CallerGraphIds : DeleteGraph(gid)
     /\ UNCHANGED <<avars, wvars, dvars>>
  \/ DeleteAllGraphs /\ UNCHANGED <<avars, wvars, dvars>>
  \/ /\ \E gid \in CallerGraphIds : ListAllNodeIds(gid)
     /\ UNCHANGED <<avars, wvars, dvars>>
  \/ /\ \E gid \in CallerGraphIds, nid \in NodeIds : GetNodeProperties(gid, nid)
     /\ UNCHANGED <<avars, wvars, dvars>>
  \/ /\ nupdates < MaxUpdates
     /\ \E gid \in CallerGraphIds, nid \in NodeIds, k \in UpdateNames :
          \E v \in UpdateValues(k) : UpdateNodeProperty(gid, nid, k, v)
     /\ UNCHANGED <<avars, wvars, dvars>>
  \/ /\ nupdates < MaxUpdates
     /\ \E gid \in CallerGraphIds, nid \in NodeIds, d \in UpdateDicts :
          UpdateNodeProperties(gid, nid, d)
     /\ UNCHANGED <<avars, wvars, dvars>>
  \/ /\ \E gid \in CallerGraphIds, a \in NodeIds, b \in NodeIds, k \in RelKinds :
          GetLinkProperties(gid, a, b, k)
     /\ UNCHANGED <<avars, wvars, dvars>>
  \/ /\ \E gid \in CallerGraphIds, a \in NodeIds, b \in NodeIds, k \in RelKinds :
          UpdateLinkProperty(gid, a, b, k)
     /\ UNCHANGED <<avars, wvars, dvars>>
  \/ /\ \E gid \in CallerGraphIds, a \in NodeIds, b \in NodeIds, k \in RelKinds :
          UpdateLinkProperties(gid, a, b, k)
     /\ UNCHANGED <<avars, wvars, dvars>>
  \/ /\ \E gid \in CallerGraphIds : SerializeGraph(gid)
     /\ UNCHANGED <<avars, wvars, dvars>>

SpecStore == Init /\ [][NextStore]_vars

(***************************************************************************)
(* Claims about the import paths (Spec)                                    *)
(***************************************************************************)
ImportDone == call.op = "import_graph_from_string" /\ pc = "done"

ReturnedAssignedId ==
  result = "returned" /\ ret.kind = "id" /\ ret.v = assigned_id

\* C1, as stated: import_graph_from_string makes at most 10 bulk-import
\* attempts per call; it returns the assigned graph id if and only if one of
\* them succeeds, and it raises the terminal import error if and only if all
\* 10 attempts fail.
C1_AsStated ==
  /\ attempts <= 10
  /\ ImportDone =>
       /\ ReturnedAssignedId <=> succeeded
       /\ (result = "raised_terminal") <=> (attempts = 10 /\ ~succeeded)

\* C1, amended: at most 10 attempts are made; the call returns the assigned
\* graph id if and only if one of them succeeds; it raises the terminal import
\* error if and only if all 10 attempts fail and no delete_graph call made
\* after a failed attempt raised; an error raised by such a delete_graph call
\* leaves the function at once, without a further attempt, whatever the number
\* of attempts made so far.
C1_RetryBound ==
  /\ attempts <= 10
  /\ ImportDone =>
       /\ ReturnedAssignedId <=> succeeded
       /\ (result = "raised_terminal") <=>
            (attempts = 10 /\ ~succeeded /\ result # "raised_driver")
       /\ (result = "raised_driver") => (~succeeded /\ attempts \in 1..10)
       /\ result \in {"returned", "raised_terminal", "raised_driver",
                      "raised_networkx"}

\* three failed attempts followed by a success
C1_Witness == ImportDone /\ ReturnedAssignedId /\ attempts = 4

\* C2: once _prep_graph has written the staged import file, the file no
\* longer exists when import_graph_from_string returns or raises.
C2_StagedFileRemoved == (ImportDone /\ host_file # 0) => host_file \notin files

\* C3: the direct imports remove the staged file they created on every exit
\* path, the failure of the bulk loader included.
C3_DirectFileRemoved ==
  (pc = "done" /\ call.op \in {"import_graph_from_string_direct",
                               "import_graph_from_file_direct"})
    => host_file \notin files

\* C4: when import_graph_from_string succeeds after k failed attempts
\* (1 <= k < 10) under a graph id no node carried before, the nodes carrying
\* that GraphID are exactly those loaded by the successful attempt.
C4_NoResidualNodes ==
  (ImportDone /\ result = "returned" /\ attempts \in 2..10 /\ fresh_id)
    => Uids(MatchGraph(store, assigned_id)) = loaded

\* C20: when import_graph_from_string returns, it returns the caller's
\* graph_id if one was given and otherwise the value uuid4 generated for this
\* call, which no node carried before; every node of the file has been loaded
\* and carries that GraphID; and every node carrying it has the GraphNode
\* label and a label equal to its Class property.
C20_ImportedNodesTagged ==
  (ImportDone /\ result = "returned") =>
    /\ ret.kind = "id"
    /\ call.graph_id # NoGraphId => ret.v = call.graph_id
    /\ call.graph_id = NoGraphId =>
         (ret.v = UuidSeq[nuuid] /\ ret.v \notin CallerGraphIds /\ fresh_id)
    /\ Cardinality(loaded) = Cardinality(DOMAIN FileNodes(call.graph_string))
    /\ loaded # {} /\ loaded \subseteq Uids(MatchGraph(store, ret.v))
    /\ \A n \in MatchGraph(store, ret.v) :
         /\ LABEL_GraphNode \in n.labels
         /\ n.props[PROP_Class] \in n.labels

C20_Witness ==
  /\ ImportDone /\ result = "returned"
  /\ call.graph_id = NoGraphId /\ ret.v = "u1"
  /\ attempts >= 2
  /\ \E n \in MatchGraph(store, "u1") :
       n.props[PROP_Class] = "Component" /\ n.labels = {LABEL_GraphNode, "Component"}

\* C21: within one call of import_graph_from_string an attempt starts only
\* at the head of the loop with retry > 0; after a failed attempt the call
\* is at the delete_graph of the assigned id, which it leaves for the sleep
\* by deleting the GraphNode nodes of that id, and it comes back to the head
\* of the loop from the sleep only (or from the start of the call): between
\* two attempts delete_graph runs, then the delay, in that order.
C21_DeleteThenSleepBetweenAttempts ==
  [][ /\ attempts' = attempts + 1 =>
           /\ pc = "loop" /\ retry > 0
           /\ pc' \in {"loop", "delete"}
           /\ pc' = "loop" => retry' = -1
      /\ (pc' = "delete" /\ pc # "delete") => attempts' = attempts + 1
      /\ (pc' = "sleep" /\ pc # "sleep") =>
           /\ pc = "delete"
           /\ store' = DeleteGraphStore(store, assigned_id)
           /\ attempts' = attempts
      /\ (pc' = "loop" /\ pc # "loop") =>
           \/ pc = "sleep" /\ attempts' = attempts /\ store' = store
           \/ Quiescent /\ attempts' = 0
    ]_vars

C21_Witness ==
  /\ call.op = "import_graph_from_string"
  /\ pc = "delete" /\ attempts = 3

\* C24: the import error import_graph_from_string raises once the retries
\* are exhausted carries the id assigned to the graph being imported.
C24_TerminalErrorCarriesAssignedId ==
  (ImportDone /\ result = "raised_terminal") => err_gid = assigned_id

\* C28: every call of import_graph_from_string terminates.  Whatever the
\* bulk loader does at each attempt, no call makes more than
\* APOC_RETRY_COUNT attempts, and a call that is in its retry loop (at the
\* loop test, in the except block or asleep) leaves it and ends, either
\* returning the assigned id or raising.
C28_ImportTerminates ==
  /\ [](attempts <= APOC_RETRY_COUNT)
  /\ (call.op = "import_graph_from_string" /\ pc \in {"loop", "delete", "sleep"})
       ~> (/\ ImportDone
           /\ \/ result = "returned" /\ ret = [kind |-> "id", v |-> assigned_id]
              \/ result \in {"raised_terminal", "raised_driver"})

\* a call that used all its attempts and has ended
C28_Witness ==
  /\ ImportDone
  /\ attempts = APOC_RETRY_COUNT
  /\ result \in {"returned", "raised_terminal"}

(***************************************************************************)
(* Claims about the operations addressed to one graph id (SpecStore)       *)
(***************************************************************************)
UpdateOps == {"update_node_property", "update_node_properties"}

ScopedOps ==
  UpdateOps \cup {"get_node_properties", "get_link_properties",
                  "update_link_property", "update_link_properties",
                  "list_all_node_ids", "delete_graph"}

Raised == {"raised_query", "raised_driver", "raised_import",
           "raised_terminal", "raised_networkx"}

\* C5: update_node_property and update_node_properties reject every call that
\* sets the Class key: the call fails and the nodes are unchanged.
C5_ClassImmutable ==
  [][(Quiescent /\ call'.op \in UpdateOps /\ PROP_Class \in DOMAIN call'.props)
       => (result' \in Raised /\ store' = store)]_vars

OtherNodes(s, g) == {n \in s : ~HasProp(n, PROP_GraphID, g)}

RelsAmong(r, s) == {e \in r : e.a \in Uids(s) /\ e.b \in Uids(s)}

GraphIdOf(n) ==
  IF PROP_GraphID \in DOMAIN n.props THEN n.props[PROP_GraphID] ELSE NoGraphId

\* C6: an operation addressed to graph id g leaves the nodes, properties and
\* edges of every other graph as they were, moves no node from one graph id
\* to another, and returns properties of nodes of g only.
C6_ScopedToGraph ==
  [][(Quiescent /\ call'.op \in ScopedOps)
       => LET g == call'.graph_id
          IN /\ OtherNodes(store', g) = OtherNodes(store, g)
             /\ RelsAmong(rels', OtherNodes(store', g))
                  = RelsAmong(rels, OtherNodes(store, g))
             /\ \A n \in store, m \in store' :
                  n.uid = m.uid => GraphIdOf(n) = GraphIdOf(m)
             /\ (call'.op = "get_node_properties" /\ result' = "returned")
                  => ret'.v[PROP_GraphID] = g]_vars

\* the property maps of the nodes import_graph_from_string creates from a
\* serialized graph when it is imported under graph id gid
ReimportedProps(graphml, gid) == {Stamp(n.props, gid) : n \in graphml.nodes}

\* C14: importing the string returned by serialize_graph(G) yields the
\* NodeIDs and the property values of the nodes of G, whatever the edges of G
\* (nodes without an edge included).
C14_SerializeRoundTrip ==
  (call.op = "serialize_graph" /\ result = "returned")
    => ReimportedProps(ret.v, call.graph_id)
         = {n.props : n \in MatchGraph(store, call.graph_id)}

\* C15: after delete_graph(g) has returned, no node with GraphID g remains in
\* the store and list_all_node_ids(g) would list nothing, whichever import
\* path created the graph.
C15_DeleteGraphRemovesAll ==
  (call.op = "delete_graph" /\ result = "returned")
    => /\ MatchGraph(store, call.graph_id) = {}
       /\ DOMAIN CollectNodeIds(store, call.graph_id) = {}

LinkOps ==
  {"get_link_properties", "update_link_property", "update_link_properties"}

\* a link of kind k joins, in either direction, the nodes a and b of graph gid
LinkExists(s, r, gid, a, b, k) == MatchLink(s, r, PROP_GraphID, gid, a, b, k) # {}

\* C22: get_link_properties, update_link_property and update_link_properties,
\* called for a link of kind k that exists between nodes a and b of the
\* graph, with the endpoints in either order, return normally (the updates
\* having written the properties they name, the read returning the link's
\* properties).
C22_LinkUpdateReadBack ==
  [][(/\ Quiescent /\ call'.op \in LinkOps
      /\ LinkExists(store, rels, call'.graph_id, call'.node_a, call'.node_b,
                    call'.kind))
       => result' = "returned"]_vars

\* C23: no step changes the NodeID of a node that exists before and after it.
C23_NodeIdImmutable ==
  [][\A n \in store : \A m \in store' :
       n.uid = m.uid => m.props[PROP_NodeID] = n.props[PROP_NodeID]]_vars

(***************************************************************************)
(* The slice-model graph (abc_asm.py)                                      *)
(***************************************************************************)
\* Removal operations called in one behaviour of SpecASM.
MaxRemovals == 1

CLASS_NetworkNode == "NetworkNode"
CLASS_Component == "Component"
CLASS_SwitchFabric == "SwitchFabric"
CLASS_ConnectionPoint == "ConnectionPoint"
CLASS_Link == "Link"
REL_HAS == "has"
REL_CONNECTS == "connects"

\* The node ids of the graphs explored, by class.
NetworkNodeIds == {"a", "b"}
ComponentIds == {"c1"}
SwitchFabricIds == {"s1", "s2", "s3"}
ConnectionPointIds == {"p1", "p2", "p3", "p4"}
LinkIds == {"l1", "l2"}
AllIds == NetworkNodeIds \cup ComponentIds \cup SwitchFabricIds
            \cup ConnectionPointIds \cup LinkIds

\* further slivers handed to the add_* operations: NetworkNode a2 has the
\* name of a, and the Component c2 of NetworkNode d has the name of c1
TwinNetworkNodeIds == {"a2", "d"}
TwinComponentIds == {"c2"}

\* the label a node was created with; the code never changes it
LabelOf(id) ==
  CASE id \in NetworkNodeIds \cup TwinNetworkNodeIds -> CLASS_NetworkNode
    [] id \in ComponentIds \cup TwinComponentIds -> CLASS_Component
    [] id \in SwitchFabricIds -> CLASS_SwitchFabric
    [] id \in ConnectionPointIds -> CLASS_ConnectionPoint
    [] id \in LinkIds -> CLASS_Link

Edge(x, rel, y) == [ends |-> {x, y}, rel |-> rel]

\* NetworkNode a has Component c1 (with SwitchFabric s1) and SwitchFabric s2;
\* NetworkNode b has SwitchFabric s3.
ContainmentEdges ==
  {Edge("a", REL_HAS, "c1"), Edge("c1", REL_HAS, "s1"),
   Edge("a", REL_HAS, "s2"), Edge("b", REL_HAS, "s3")}

\* The graphs of the fixed containment shape explored: p1 is an interface of
\* s1, p2 of s1 or s2, p3 and p4 of s3; p1, p2 and p3 nest in any way; l1
\* attaches to any of the interfaces and l2 to any of p2 and p4.
ShapeGraphs ==
  {ContainmentEdges
     \cup {Edge("s1", REL_CONNECTS, "p1"), Edge(sf2, REL_CONNECTS, "p2"),
           Edge("s3", REL_CONNECTS, "p3"), Edge("s3", REL_CONNECTS, "p4")}
     \cup {Edge(pr[1], REL_CONNECTS, pr[2]) : pr \in nest}
     \cup {Edge(i, REL_CONNECTS, "l1") : i \in on1}
     \cup {Edge(i, REL_CONNECTS, "l2") : i \in on2} :
   sf2 \in {"s1", "s2"},
   nest \in SUBSET {<<"p1", "p2">>, <<"p1", "p3">>, <<"p2", "p3">>},
   on1 \in SUBSET ConnectionPointIds,
   on2 \in SUBSET {"p2", "p4"}}

InitGraph ==
  /\ gnodes = AllIds
  /\ gedges \in ShapeGraphs
  /\ acall = NoCall
  /\ astack = <<>>
  /\ aresult = "none"
  /\ nremovals = 0
  /\ g0nodes = gnodes
  /\ g0edges = gedges
  /\ debug = TRUE
  /\ aret = NoSliver

InitASM == InitStore /\ InitGraph

\* get_first_neighbor(node_id, rel, node_label): the nodes one `rel` link away
\* whose label is node_label.  The code follows the same kind of link from an
\* interface to its Link (line 495) and from a Link to its interfaces (line
\* 499): links are followed in both directions.
GetFirstNeighbor(nodes, edges, id, rel, label) ==
  {m \in nodes : Edge(id, rel, m) \in edges /\ m # id /\ LabelOf(m) = label}

\* delete_node(node_id): the node goes, and the links touching it
DeleteNodeNodes(nodes, id) == nodes \ {id}

DeleteNodeEdges(edges, id) == {e \in edges : id \notin e.ends}

\* remove_cp_and_links, lines 480-489; the variants leave out node_id itself,
\* and take every parent whatever the number of its children
InterfacesToDelete_WithoutSelf(nodes, edges, id) ==
  {parent \in GetFirstNeighbor(nodes, edges, id, REL_CONNECTS,
                               CLASS_ConnectionPoint) :
     Cardinality(GetFirstNeighbor(nodes, edges, parent, REL_CONNECTS,
                                  CLASS_ConnectionPoint)) = 1}

InterfacesToDelete_AnyParent(nodes, edges, id) ==
  {id} \cup GetFirstNeighbor(nodes, edges, id, REL_CONNECTS,
                             CLASS_ConnectionPoint)

InterfacesToDelete(nodes, edges, id) ==
  {id} \cup
  {parent \in GetFirstNeighbor(nodes, edges, id, REL_CONNECTS,
                               CLASS_ConnectionPoint) :
     Cardinality(GetFirstNeighbor(nodes, edges, parent, REL_CONNECTS,
                                  CLASS_ConnectionPoint)) = 1}

\* remove_cp_and_links, lines 493-503; the variants take the links with one
\* interface connected, and every link whatever that number
LinksToDelete_OnlyUnshared(nodes, edges, interfaces) ==
  {link \in UNION {GetFirstNeighbor(nodes, edges, i, REL_CONNECTS, CLASS_Link) :
                     i \in interfaces} :
     Cardinality(GetFirstNeighbor(nodes, edges, link, REL_CONNECTS,
                                  CLASS_ConnectionPoint)) = 1}

LinksToDelete_AnyCount(nodes, edges, interfaces) ==
  UNION {GetFirstNeighbor(nodes, edges, i, REL_CONNECTS, CLASS_Link) :
           i \in interfaces}

LinksToDelete(nodes, edges, interfaces) ==
  {link \in UNION {GetFirstNeighbor(nodes, edges, i, REL_CONNECTS, CLASS_Link) :
                     i \in interfaces} :
     Cardinality(GetFirstNeighbor(nodes, edges, link, REL_CONNECTS,
                                  CLASS_ConnectionPoint)) = 2}

(***************************************************************************)
(* The cascading removals.  A frame of astack is one call in progress:     *)
(* fn the function, id its node_id, phase its position and todo the items  *)
(* its current for loop has still to visit.  The loops visit the lists     *)
(* get_first_neighbor returned, and the union of two sets, in any order.   *)
(***************************************************************************)
FN_node == "remove_network_node_with_components_sfs_cps_and_links"
FN_comp == "remove_component_with_sfs_cps_and_links"
FN_sf == "remove_sf_with_cps_and_links"
FN_cp == "remove_cp_and_links"
FN_link == "remove_network_link"

Frame(fn, id) == [fn |-> fn, id |-> id, phase |-> "enter", todo |-> {}]

Top == astack[Len(astack)]

Caller == SubSeq(astack, 1, Len(astack) - 1)

Running == astack # <<>>

\* the caller calls fn(node_id=id)
RemoveCall(fn, id) ==
  /\ ~Running
  /\ acall' = [op |-> fn, node_id |-> id]
  /\ astack' = <<Frame(fn, id)>>
  /\ aresult' = "running"
  /\ nremovals' = nremovals + 1
  /\ g0nodes' = gnodes
  /\ g0edges' = gedges
  /\ aret' = NoSliver
  /\ UNCHANGED <<gnodes, gedges, debug>>

\* a PropertyGraphQueryException leaves every function on the stack
Raise ==
  /\ astack' = <<>>
  /\ aresult' = "raised"
  /\ UNCHANGED <<gnodes, gedges>>

\* the innermost function returns
ReturnToCaller ==
  /\ astack' = Caller
  /\ aresult' = IF Len(astack) = 1 THEN "returned" ELSE aresult

HasClass_AnyClass(nodes, id, cls) == id \in nodes

\* get_node_properties(node_id) and the test of the labels it returns
HasClass(nodes, id, cls) == id \in nodes /\ LabelOf(id) = cls

\* remove_network_node_...: lines 406-412
EnterNetworkNode ==
  /\ Running /\ Top.fn = FN_node /\ Top.phase = "enter"
  /\ IF HasClass(gnodes, Top.id, CLASS_NetworkNode)
       THEN /\ astack' = Caller \o
                 <<[Top EXCEPT !.phase = "components",
                               !.todo = GetFirstNeighbor(gnodes, gedges, Top.id,
                                                         REL_HAS, CLASS_Component)]>>
            /\ UNCHANGED <<gnodes, gedges, aresult>>
       ELSE Raise
  /\ UNCHANGED <<acall, nremovals, g0nodes, g0edges, debug, aret>>

\* lines 413-414: one pass of the loop over the components
LoopComponents ==
  /\ Running /\ Top.fn = FN_node /\ Top.phase = "components"
  /\ \E cid \in Top.todo :
       astack' = Caller \o <<[Top EXCEPT !.todo = @ \ {cid}],
                             Frame(FN_comp, cid)>>
  /\ UNCHANGED <<gnodes, gedges, acall, aresult, nremovals, g0nodes, g0edges, debug, aret>>

\* lines 417-419: after the loop, the switch fabrics are read and the node
\* itself is deleted
NetworkNodeDeleteSelf ==
  /\ Running /\ Top.fn = FN_node /\ Top.phase = "components" /\ Top.todo = {}
  /\ IF Top.id \in gnodes
       THEN /\ astack' = Caller \o
                 <<[Top EXCEPT !.phase = "sfs",
                               !.todo = GetFirstNeighbor(gnodes, gedges, Top.id,
                                                         REL_HAS, CLASS_SwitchFabric)]>>
            /\ gnodes' = DeleteNodeNodes(gnodes, Top.id)
            /\ gedges' = DeleteNodeEdges(gedges, Top.id)
            /\ UNCHANGED aresult
       ELSE Raise
  /\ UNCHANGED <<acall, nremovals, g0nodes, g0edges, debug, aret>>

\* remove_component_...: lines 432-439
EnterComponent ==
  /\ Running /\ Top.fn = FN_comp /\ Top.phase = "enter"
  /\ IF HasClass(gnodes, Top.id, CLASS_Component)
       THEN /\ astack' = Caller \o
                 <<[Top EXCEPT !.phase = "sfs",
                               !.todo = GetFirstNeighbor(gnodes, gedges, Top.id,
                                                         REL_HAS, CLASS_SwitchFabric)]>>
            /\ gnodes' = DeleteNodeNodes(gnodes, Top.id)
            /\ gedges' = DeleteNodeEdges(gedges, Top.id)
            /\ UNCHANGED aresult
       ELSE Raise
  /\ UNCHANGED <<acall, nremovals, g0nodes, g0edges, debug, aret>>

\* lines 420-421 and 440-441: one pass of the loop over the switch fabrics
LoopSwitchFabrics ==
  /\ Running /\ Top.fn \in {FN_node, FN_comp} /\ Top.phase = "sfs"
  /\ \E sf \in Top.todo :
       astack' = Caller \o <<[Top EXCEPT !.todo = @ \ {sf}], Frame(FN_sf, sf)>>
  /\ UNCHANGED <<gnodes, gedges, acall, aresult, nremovals, g0nodes, g0edges, debug, aret>>

\* remove_sf_with_cps_and_links: lines 460-467
EnterSwitchFabric ==
  /\ Running /\ Top.fn = FN_sf /\ Top.phase = "enter"
  /\ IF HasClass(gnodes, Top.id, CLASS_SwitchFabric)
       THEN /\ astack' = Caller \o
                 <<[Top EXCEPT !.phase = "cps",
                               !.todo = GetFirstNeighbor(gnodes, gedges, Top.id,
                                                         REL_CONNECTS,
                                                         CLASS_ConnectionPoint)]>>
            /\ gnodes' = DeleteNodeNodes(gnodes, Top.id)
            /\ gedges' = DeleteNodeEdges(gedges, Top.id)
            /\ UNCHANGED aresult
       ELSE Raise
  /\ UNCHANGED <<acall, nremovals, g0nodes, g0edges, debug, aret>>

\* lines 468-469: one pass of the loop over the interfaces
LoopInterfaces ==
  /\ Running /\ Top.fn = FN_sf /\ Top.phase = "cps"
  /\ \E iif \in Top.todo :
       astack' = Caller \o <<[Top EXCEPT !.todo = @ \ {iif}], Frame(FN_cp, iif)>>
  /\ UNCHANGED <<gnodes, gedges, acall, aresult, nremovals, g0nodes, g0edges, debug, aret>>

\* a variant that deletes the interface before it reads its neighbours
CollectInterfacesAndLinks_DeleteFirst ==
  /\ Running /\ Top.fn = FN_cp /\ Top.phase = "enter"
  /\ Top.id \in gnodes
  /\ gnodes' = DeleteNodeNodes(gnodes, Top.id)
  /\ gedges' = DeleteNodeEdges(gedges, Top.id)
  /\ astack' = Caller \o
       <<[Top EXCEPT
            !.phase = "delete",
            !.todo = (InterfacesToDelete(gnodes', gedges', Top.id) \cup
                      LinksToDelete(gnodes', gedges',
                        InterfacesToDelete(gnodes', gedges', Top.id)))
                     \ {Top.id}]>>
  /\ UNCHANGED aresult
  /\ UNCHANGED <<acall, nremovals, g0nodes, g0edges, debug, aret>>

\* remove_cp_and_links, lines 480-503: the reads.  get_first_neighbor of a
\* node that is not in the graph either fails or finds no neighbour.
CollectInterfacesAndLinks ==
  /\ Running /\ Top.fn = FN_cp /\ Top.phase = "enter"
  /\ IF Top.id \in gnodes
       THEN /\ astack' = Caller \o
                 <<[Top EXCEPT
                      !.phase = "delete",
                      !.todo = InterfacesToDelete(gnodes, gedges, Top.id) \cup
                               LinksToDelete(gnodes, gedges,
                                 InterfacesToDelete(gnodes, gedges, Top.id))]>>
            /\ UNCHANGED <<gnodes, gedges, aresult>>
       ELSE \/ Raise
            \/ /\ astack' = Caller \o
                    <<[Top EXCEPT !.phase = "delete", !.todo = {Top.id}]>>
               /\ UNCHANGED <<gnodes, gedges, aresult>>
  /\ UNCHANGED <<acall, nremovals, g0nodes, g0edges, debug, aret>>

\* lines 505-506: one pass of the loop over the nodes collected
DeleteCollected ==
  /\ Running /\ Top.fn = FN_cp /\ Top.phase = "delete"
  /\ \E deleted_id \in Top.todo :
       IF deleted_id \in gnodes
         THEN /\ astack' = Caller \o <<[Top EXCEPT !.todo = @ \ {deleted_id}]>>
              /\ gnodes' = DeleteNodeNodes(gnodes, deleted_id)
              /\ gedges' = DeleteNodeEdges(gedges, deleted_id)
              /\ UNCHANGED aresult
         ELSE Raise
  /\ UNCHANGED <<acall, nremovals, g0nodes, g0edges, debug, aret>>

\* remove_network_link: lines 446-451
RemoveNetworkLinkBody ==
  /\ Running /\ Top.fn = FN_link /\ Top.phase = "enter"
  /\ IF HasClass(gnodes, Top.id, CLASS_Link)
       THEN /\ gnodes' = DeleteNodeNodes(gnodes, Top.id)
            /\ gedges' = DeleteNodeEdges(gedges, Top.id)
            /\ ReturnToCaller
       ELSE Raise
  /\ UNCHANGED <<acall, nremovals, g0nodes, g0edges, debug, aret>>

\* the end of a function whose last loop has visited every item
LoopDone ==
  /\ Running /\ Top.phase \in {"sfs", "cps", "delete"} /\ Top.todo = {}
  /\ ReturnToCaller
  /\ UNCHANGED <<gnodes, gedges, acall, nremovals, g0nodes, g0edges, debug, aret>>

(***************************************************************************)
(* prune(reservation_state).  The targets are the NetworkNodes and Links   *)
(* of the topology whose reservation state is the one given; each is       *)
(* removed with the cascade of its class, and a target that is no longer   *)
(* in the graph when its turn comes is skipped.                            *)
(***************************************************************************)
\* Calls of prune in one behaviour of SpecPrune.
MaxPrunes == 2

FN_prune == "prune"

TopLevelIds == NetworkNodeIds \cup LinkIds

\* the caller calls prune(s); `failed` are the top-level nodes in state s.
\* Nothing changes a reservation state between two prunes.
PruneCall(failed) ==
  /\ ~Running
  /\ acall.op = FN_prune => failed = acall.failed
  /\ acall' = [op |-> FN_prune, failed |-> failed,
               again |-> (acall.op = FN_prune /\ aresult = "returned")]
  /\ astack' = <<[fn |-> FN_prune, id |-> "topology", phase |-> "targets",
                  todo |-> failed \cap gnodes]>>
  /\ aresult' = "running"
  /\ nremovals' = nremovals + 1
  /\ g0nodes' = gnodes
  /\ g0edges' = gedges
  /\ aret' = NoSliver
  /\ UNCHANGED <<gnodes, gedges, debug>>

\* one pass of the loop over the targets
PruneTarget ==
  /\ Running /\ Top.fn = FN_prune /\ Top.phase = "targets"
  /\ \E t \in Top.todo :
       astack' =
         IF t \in gnodes
           THEN Caller \o <<[Top EXCEPT !.todo = @ \ {t}],
                            Frame(IF LabelOf(t) = CLASS_NetworkNode
                                    THEN FN_node ELSE FN_link, t)>>
           ELSE Caller \o <<[Top EXCEPT !.todo = @ \ {t}]>>
  /\ UNCHANGED <<gnodes, gedges, acall, aresult, nremovals, g0nodes, g0edges,
                 debug, aret>>

PruneReturn ==
  /\ Running /\ Top.fn = FN_prune /\ Top.todo = {}
  /\ ReturnToCaller
  /\ UNCHANGED <<gnodes, gedges, acall, nremovals, g0nodes, g0edges, debug,
                 aret>>

(***************************************************************************)
(* Adding slivers and building deep slivers.  A sliver is named by its     *)
(* node_id; its resource_name and its nested slivers are fixed per sliver. *)
(***************************************************************************)
MaxSliverCalls == 4

FN_add_node == "add_network_node_sliver"
FN_add_link == "add_network_link_sliver"
FN_add_comp == "add_component_sliver"
FN_add_sf == "add_switch_fabric_sliver"
FN_add_if == "add_interface_sliver"
FN_build_node == "build_deep_node_sliver"
FN_build_comp == "build_deep_component_sliver"
FN_build_sf == "build_deep_sf_sliver"

\* sliver.resource_name, stored as the node's Name property (line 177) and
\* read back from it (line 93)
NameOf(id) ==
  CASE id \in {"a", "a2"} -> "A"
    [] id \in {"c1", "c2"} -> "C"
    [] OTHER -> id

\* sliver.attached_components_info.devices.values()
SliverComponents(id) ==
  CASE id = "a" -> {"c1"}
    [] id = "d" -> {"c2"}
    [] OTHER -> {}

\* sliver.switch_fabric_info.switch_fabrics.values()
SliverSwitchFabrics(id) ==
  CASE id = "a" -> {"s2"}
    [] id = "c1" -> {"s1"}
    [] id = "b" -> {"s3"}
    [] OTHER -> {}

\* switch_fabric.interface_info.interfaces.values()
SliverInterfaces(id) ==
  CASE id = "s1" -> {"p1", "p2"}
    [] id = "s3" -> {"p3", "p4"}
    [] OTHER -> {}

\* the parent_node_id a nested sliver is added with
SliverParent(id) ==
  CHOOSE x \in AllIds \cup TwinNetworkNodeIds :
    id \in SliverComponents(x) \cup SliverSwitchFabrics(x) \cup SliverInterfaces(x)

\* the interfaces lists handed to add_network_link_sliver
InterfaceLists == {<<"p1", "p3">>, <<"p3", "p1">>, <<"p2", "p4">>}

\* an empty graph, in an interpreter started with or without -O
InitBuild ==
  /\ InitStore
  /\ gnodes = {}
  /\ gedges = {}
  /\ acall = NoCall
  /\ astack = <<>>
  /\ aresult = "none"
  /\ nremovals = 0
  /\ g0nodes = {}
  /\ g0edges = {}
  /\ debug \in BOOLEAN
  /\ aret = NoSliver

\* check_node_unique(label, name): no node of this label has this Name
CheckNodeUnique(nodes, label, name) ==
  ~ \E m \in nodes : LabelOf(m) = label /\ NameOf(m) = name

AddFrame(fn, id, parent) ==
  [fn |-> fn, id |-> id, parent |-> parent, phase |-> "enter", todo |-> {},
   interfaces |-> <<>>]

\* the caller calls an add_* operation
AddCall(fn, id, parent, interfaces) ==
  /\ ~Running
  /\ acall' = [op |-> fn, node_id |-> id]
  /\ astack' = <<[AddFrame(fn, id, parent) EXCEPT !.interfaces = interfaces]>>
  /\ aresult' = "running"
  /\ nremovals' = nremovals + 1
  /\ g0nodes' = gnodes
  /\ g0edges' = gedges
  /\ aret' = NoSliver
  /\ UNCHANGED <<gnodes, gedges, debug>>

\* an exception raised after add_node has added the node
RaiseAfterAddNode ==
  /\ gnodes' = gnodes \cup {Top.id}
  /\ gedges' = gedges
  /\ astack' = <<>>
  /\ aresult' = "raised"

\* The head of every add_* operation: the assert on check_node_unique (not
\* executed when __debug__ is false), add_node, which fails when the node id
\* exists, and for a nested sliver add_link to the parent, which fails when
\* the parent does not exist; then the first loop over the nested slivers.
AddEntity(fn, label, rel, phase, todo) ==
  /\ Running /\ Top.fn = fn /\ Top.phase = "enter"
  /\ IF debug /\ ~CheckNodeUnique(gnodes, label, NameOf(Top.id))
       THEN Raise
       ELSE IF Top.id \in gnodes
         THEN Raise
         ELSE IF rel # "none" /\ Top.parent \notin gnodes
           THEN RaiseAfterAddNode
           ELSE /\ gnodes' = gnodes \cup {Top.id}
                /\ gedges' = gedges \cup
                     (IF rel = "none" THEN {} ELSE {Edge(Top.parent, rel, Top.id)})
                /\ astack' = Caller \o
                     <<[Top EXCEPT !.phase = phase, !.todo = todo]>>
                /\ UNCHANGED aresult
  /\ UNCHANGED <<acall, nremovals, g0nodes, g0edges, debug, aret>>

\* add_network_node_sliver: lines 510-515
AddNetworkNodeSliver ==
  AddEntity(FN_add_node, CLASS_NetworkNode, "none", "components",
            SliverComponents(Top.id))

\* lines 517-521: one pass of the loop over the components
AddLoopComponents ==
  /\ Running /\ Top.fn = FN_add_node /\ Top.phase = "components"
  /\ \E c \in Top.todo :
       astack' = Caller \o <<[Top EXCEPT !.todo = @ \ {c}],
                             AddFrame(FN_add_comp, c, Top.id)>>
  /\ UNCHANGED <<gnodes, gedges, acall, aresult, nremovals, g0nodes, g0edges,
                 debug, aret>>

\* lines 522-524: after the loop over the components, the switch fabrics
AddNetworkNodeSwitchFabrics ==
  /\ Running /\ Top.fn = FN_add_node /\ Top.phase = "components"
  /\ Top.todo = {}
  /\ astack' = Caller \o
       <<[Top EXCEPT !.phase = "sfs", !.todo = SliverSwitchFabrics(Top.id)]>>
  /\ UNCHANGED <<gnodes, gedges, acall, aresult, nremovals, g0nodes, g0edges,
                 debug, aret>>

\* add_component_sliver: lines 549-555
AddComponentSliver ==
  AddEntity(FN_add_comp, CLASS_Component, REL_HAS, "sfs",
            SliverSwitchFabrics(Top.id))

\* lines 525-527 and 556-559: one pass of the loop over the switch fabrics
AddLoopSwitchFabrics ==
  /\ Running /\ Top.fn \in {FN_add_node, FN_add_comp} /\ Top.phase = "sfs"
  /\ \E sf \in Top.todo :
       astack' = Caller \o <<[Top EXCEPT !.todo = @ \ {sf}],
                             AddFrame(FN_add_sf, sf, Top.id)>>
  /\ UNCHANGED <<gnodes, gedges, acall, aresult, nremovals, g0nodes, g0edges,
                 debug, aret>>

\* add_switch_fabric_sliver: lines 568-575
AddSwitchFabricSliver ==
  AddEntity(FN_add_sf, CLASS_SwitchFabric, REL_HAS, "cps",
            SliverInterfaces(Top.id))

\* lines 576-579: one pass of the loop over the interfaces
AddLoopInterfaces ==
  /\ Running /\ Top.fn = FN_add_sf /\ Top.phase = "cps"
  /\ \E i \in Top.todo :
       astack' = Caller \o <<[Top EXCEPT !.todo = @ \ {i}],
                             AddFrame(FN_add_if, i, Top.id)>>
  /\ UNCHANGED <<gnodes, gedges, acall, aresult, nremovals, g0nodes, g0edges,
                 debug, aret>>

\* add_interface_sliver: lines 588-593; it has no loop and returns
AddInterfaceSliver ==
  AddEntity(FN_add_if, CLASS_ConnectionPoint, REL_CONNECTS, "delete", {})

\* add_network_link_sliver: lines 531-537
AddNetworkLinkSliver ==
  AddEntity(FN_add_link, CLASS_Link, "none", "interfaces", {})

\* lines 539-540: one pass of the loop over the interfaces list, in its order
AddLinkToInterface ==
  /\ Running /\ Top.fn = FN_add_link /\ Top.phase = "interfaces"
  /\ Top.interfaces # <<>>
  /\ IF Head(Top.interfaces) \in gnodes
       THEN /\ gedges' = gedges \cup
                 {Edge(Top.id, REL_CONNECTS, Head(Top.interfaces))}
            /\ astack' = Caller \o <<[Top EXCEPT !.interfaces = Tail(@)]>>
            /\ UNCHANGED <<gnodes, aresult>>
       ELSE Raise
  /\ UNCHANGED <<acall, nremovals, g0nodes, g0edges, debug, aret>>

\* the end of add_network_link_sliver
AddNetworkLinkDone ==
  /\ Running /\ Top.fn = FN_add_link /\ Top.phase = "interfaces"
  /\ Top.interfaces = <<>>
  /\ ReturnToCaller
  /\ UNCHANGED <<gnodes, gedges, acall, nremovals, g0nodes, g0edges, debug,
                 aret>>

\* an *Info collection of nested slivers; the attribute stays None when
\* there is none to attach (lines 611, 619, 638, 657)
Info(slivers) == [present |-> slivers # {}, items |-> slivers]

\* interface_sliver_from_graph_properties_dict: line 644
InterfaceSliverOf(id) == [name |-> NameOf(id)]

\* build_deep_sf_sliver without lines 636-644: no interface is attached
BuildDeepSfSliver_NoInterfaces(nodes, edges, id) ==
  [name |-> NameOf(id), interface_info |-> Info({})]

\* build_deep_sf_sliver: lines 634-646
BuildDeepSfSliver(nodes, edges, id) ==
  [name |-> NameOf(id),
   interface_info |->
     Info({InterfaceSliverOf(i) :
             i \in GetFirstNeighbor(nodes, edges, id, REL_CONNECTS,
                                    CLASS_ConnectionPoint)})]

\* build_deep_component_sliver: lines 653-664
BuildDeepComponentSliver(nodes, edges, id) ==
  [name |-> NameOf(id),
   switch_fabric_info |->
     Info({BuildDeepSfSliver(nodes, edges, sf) :
             sf \in GetFirstNeighbor(nodes, edges, id, REL_HAS,
                                     CLASS_SwitchFabric)})]

\* build_deep_node_sliver: lines 606-627
BuildDeepNodeSliver(nodes, edges, id) ==
  [name |-> NameOf(id),
   attached_components_info |->
     Info({BuildDeepComponentSliver(nodes, edges, c) :
             c \in GetFirstNeighbor(nodes, edges, id, REL_HAS,
                                    CLASS_Component)}),
   switch_fabric_info |->
     Info({BuildDeepSfSliver(nodes, edges, sf) :
             sf \in GetFirstNeighbor(nodes, edges, id, REL_HAS,
                                     CLASS_SwitchFabric)})]

\* a build_deep_* call: the class test first (lines 602-605, 630-633,
\* 649-652), then the reads; the graph is not written
BuildDeepCall(fn, cls, id, sliver) ==
  /\ ~Running
  /\ acall' = [op |-> fn, node_id |-> id]
  /\ nremovals' = nremovals + 1
  /\ g0nodes' = gnodes
  /\ g0edges' = gedges
  /\ IF HasClass(gnodes, id, cls)
       THEN aresult' = "returned" /\ aret' = sliver
       ELSE aresult' = "raised" /\ aret' = NoSliver
  /\ UNCHANGED <<gnodes, gedges, astack, debug>>

BuildDeepNodeSliverCall(id) ==
  BuildDeepCall(FN_build_node, CLASS_NetworkNode, id,
                BuildDeepNodeSliver(gnodes, gedges, id))

BuildDeepComponentSliverCall(id) ==
  BuildDeepCall(FN_build_comp, CLASS_Component, id,
                BuildDeepComponentSliver(gnodes, gedges, id))

BuildDeepSfSliverCall(id) ==
  BuildDeepCall(FN_build_sf, CLASS_SwitchFabric, id,
                BuildDeepSfSliver(gnodes, gedges, id))

\* the removals and the deep builds, on the graphs of the fixed shape
NextASM ==
  \/ /\ nremovals < MaxRemovals
     /\ \E id \in NetworkNodeIds \cup {"c1"} : RemoveCall(FN_node, id)
     /\ UNCHANGED <<nvars, wvars, dvars>>
  \/ /\ nremovals < MaxRemovals
     /\ \E id \in ComponentIds \cup {"s1"} : RemoveCall(FN_comp, id)
     /\ UNCHANGED <<nvars, wvars, dvars>>
  \/ /\ nremovals < MaxRemovals
     /\ \E id \in SwitchFabricIds \cup {"p1"} : RemoveCall(FN_sf, id)
     /\ UNCHANGED <<nvars, wvars, dvars>>
  \/ /\ nremovals < MaxRemovals
     /\ \E id \in ConnectionPointIds \cup {"s3", "l1"} : RemoveCall(FN_cp, id)
     /\ UNCHANGED <<nvars, wvars, dvars>>
  \/ /\ nremovals < MaxRemovals
     /\ \E id \in LinkIds \cup {"p1"} : RemoveCall(FN_link, id)
     /\ UNCHANGED <<nvars, wvars, dvars>>
  \/ EnterNetworkNode /\ UNCHANGED <<nvars, wvars, dvars>>
  \/ LoopComponents /\ UNCHANGED <<nvars, wvars, dvars>>
  \/ NetworkNodeDeleteSelf /\ UNCHANGED <<nvars, wvars, dvars>>
  \/ EnterComponent /\ UNCHANGED <<nvars, wvars, dvars>>
  \/ LoopSwitchFabrics /\ UNCHANGED <<nvars, wvars, dvars>>
  \/ EnterSwitchFabric /\ UNCHANGED <<nvars, wvars, dvars>>
  \/ LoopInterfaces /\ UNCHANGED <<nvars, wvars, dvars>>
  \/ CollectInterfacesAndLinks /\ UNCHANGED <<nvars, wvars, dvars>>
  \/ DeleteCollected /\ UNCHANGED <<nvars, wvars, dvars>>
  \/ RemoveNetworkLinkBody /\ UNCHANGED <<nvars, wvars, dvars>>
  \/ LoopDone /\ UNCHANGED <<nvars, wvars, dvars>>
  \/ /\ nremovals < MaxRemovals
     /\ \E id \in {"a", "b", "c1"} : BuildDeepNodeSliverCall(id)
     /\ UNCHANGED <<nvars, wvars, dvars>>
  \/ /\ nremovals < MaxRemovals
     /\ \E id \in {"c1", "s1"} : BuildDeepComponentSliverCall(id)
     /\ UNCHANGED <<nvars, wvars, dvars>>
  \/ /\ nremovals < MaxRemovals
     /\ \E id \in {"s1", "s3", "p1"} : BuildDeepSfSliverCall(id)
     /\ UNCHANGED <<nvars, wvars, dvars>>

SpecASM == InitASM /\ [][NextASM]_vars

NextBuild ==
  \/ /\ nremovals < MaxSliverCalls
     /\ \E id \in NetworkNodeIds \cup TwinNetworkNodeIds :
          AddCall(FN_add_node, id, "none", <<>>)
     /\ UNCHANGED <<nvars, wvars, dvars>>
  \/ /\ nremovals < MaxSliverCalls
     /\ \E id \in {"c1"} : AddCall(FN_add_comp, id, SliverParent(id), <<>>)
     /\ UNCHANGED <<nvars, wvars, dvars>>
  \/ /\ nremovals < MaxSliverCalls
     /\ \E id \in {"s2"} : AddCall(FN_add_sf, id, SliverParent(id), <<>>)
     /\ UNCHANGED <<nvars, wvars, dvars>>
  \/ /\ nremovals < MaxSliverCalls
     /\ \E id \in {"p1"} : AddCall(FN_add_if, id, SliverParent(id), <<>>)
     /\ UNCHANGED <<nvars, wvars, dvars>>
  \/ /\ nremovals < MaxSliverCalls
     /\ \E id \in LinkIds, interfaces \in InterfaceLists :
          AddCall(FN_add_link, id, "none", interfaces)
     /\ UNCHANGED <<nvars, wvars, dvars>>
  \/ AddNetworkNodeSliver /\ UNCHANGED <<nvars, wvars, dvars>>
  \/ AddLoopComponents /\ UNCHANGED <<nvars, wvars, dvars>>
  \/ AddNetworkNodeSwitchFabrics /\ UNCHANGED <<nvars, wvars, dvars>>
  \/ AddComponentSliver /\ UNCHANGED <<nvars, wvars, dvars>>
  \/ AddLoopSwitchFabrics /\ UNCHANGED <<nvars, wvars, dvars>>
  \/ AddSwitchFabricSliver /\ UNCHANGED <<nvars, wvars, dvars>>
  \/ AddLoopInterfaces /\ UNCHANGED <<nvars, wvars, dvars>>
  \/ AddInterfaceSliver /\ UNCHANGED <<nvars, wvars, dvars>>
  \/ AddNetworkLinkSliver /\ UNCHANGED <<nvars, wvars, dvars>>
  \/ AddLinkToInterface /\ UNCHANGED <<nvars, wvars, dvars>>
  \/ AddNetworkLinkDone /\ UNCHANGED <<nvars, wvars, dvars>>
  \/ LoopDone /\ UNCHANGED <<nvars, wvars, dvars>>
  \/ /\ nremovals < MaxSliverCalls
     /\ \E id \in {"a", "b", "d", "c1"} : BuildDeepNodeSliverCall(id)
     /\ UNCHANGED <<nvars, wvars, dvars>>
  \/ /\ nremovals < MaxSliverCalls
     /\ \E id \in {"c1", "s1"} : BuildDeepComponentSliverCall(id)
     /\ UNCHANGED <<nvars, wvars, dvars>>
  \/ /\ nremovals < MaxSliverCalls
     /\ \E id \in {"s1", "s3", "p1"} : BuildDeepSfSliverCall(id)
     /\ UNCHANGED <<nvars, wvars, dvars>>

SpecBuild == InitBuild /\ [][NextBuild]_vars

NextPrune ==
  \/ /\ nremovals < MaxPrunes
     /\ \E failed \in SUBSET TopLevelIds : PruneCall(failed)
     /\ UNCHANGED <<nvars, wvars, dvars>>
  \/ PruneTarget /\ UNCHANGED <<nvars, wvars, dvars>>
  \/ PruneReturn /\ UNCHANGED <<nvars, wvars, dvars>>
  \/ EnterNetworkNode /\ UNCHANGED <<nvars, wvars, dvars>>
  \/ LoopComponents /\ UNCHANGED <<nvars, wvars, dvars>>
  \/ NetworkNodeDeleteSelf /\ UNCHANGED <<nvars, wvars, dvars>>
  \/ EnterComponent /\ UNCHANGED <<nvars, wvars, dvars>>
  \/ LoopSwitchFabrics /\ UNCHANGED <<nvars, wvars, dvars>>
  \/ EnterSwitchFabric /\ UNCHANGED <<nvars, wvars, dvars>>
  \/ LoopInterfaces /\ UNCHANGED <<nvars, wvars, dvars>>
  \/ CollectInterfacesAndLinks /\ UNCHANGED <<nvars, wvars, dvars>>
  \/ DeleteCollected /\ UNCHANGED <<nvars, wvars, dvars>>
  \/ RemoveNetworkLinkBody /\ UNCHANGED <<nvars, wvars, dvars>>
  \/ LoopDone /\ UNCHANGED <<nvars, wvars, dvars>>

SpecPrune == InitASM /\ [][NextPrune]_vars

(***************************************************************************)
(* Properties of the cascading removals.  g0nodes and g0edges are the      *)
(* graph as it was when the caller made the call acall.                    *)
(***************************************************************************)
RemovedId == acall.node_id

Removed == g0nodes \ gnodes

\* the ConnectionPoints connected to x, and the Links connected to interface
\* i, before the call
CPsOn0(x) ==
  GetFirstNeighbor(g0nodes, g0edges, x, REL_CONNECTS, CLASS_ConnectionPoint)

LinksOn0(i) == GetFirstNeighbor(g0nodes, g0edges, i, REL_CONNECTS, CLASS_Link)

\* the parents of c whose only connected ConnectionPoint is c
SoleChildParents0(c) == {p \in CPsOn0(c) : CPsOn0(p) = {c}}

Components0(n) ==
  GetFirstNeighbor(g0nodes, g0edges, n, REL_HAS, CLASS_Component)

SwitchFabrics0(n) ==
  GetFirstNeighbor(g0nodes, g0edges, n, REL_HAS, CLASS_SwitchFabric) \cup
  UNION {GetFirstNeighbor(g0nodes, g0edges, c, REL_HAS, CLASS_SwitchFabric) :
           c \in Components0(n)}

\* the containment subtree of NetworkNode n before the call
Subtree0(n) ==
  {n} \cup Components0(n) \cup SwitchFabrics0(n) \cup
  UNION {CPsOn0(sf) : sf \in SwitchFabrics0(n)}

NetworkNodeCall ==
  acall.op = FN_node /\ HasClass(g0nodes, RemovedId, CLASS_NetworkNode)

ConnectionPointCallReturned ==
  /\ acall.op = FN_cp /\ aresult = "returned"
  /\ HasClass(g0nodes, RemovedId, CLASS_ConnectionPoint)

C9_NoLinkLeftWithoutInterfaces ==
  aresult = "returned" =>
    \A link \in gnodes :
      (/\ LabelOf(link) = CLASS_Link
       /\ CPsOn0(link) \cap Removed # {})
        => GetFirstNeighbor(gnodes, gedges, link, REL_CONNECTS,
                            CLASS_ConnectionPoint) # {}

TwoLinkedInterfaces(x, y, lx, ly, fx, fy) ==
  /\ acall.op = FN_sf /\ aresult = "returned"
  /\ HasClass(g0nodes, RemovedId, CLASS_SwitchFabric)
  /\ x # y /\ CPsOn0(RemovedId) = {x, y}
  /\ lx # ly /\ LinksOn0(x) = {lx} /\ LinksOn0(y) = {ly}
  /\ fx \notin {x, y} /\ fy \notin {x, y}
  /\ CPsOn0(lx) = {x, fx} /\ CPsOn0(ly) = {y, fy}

\* C11 as stated: removing such a SwitchFabric removes it, both interfaces
\* and both Links, and leaves the two far-end interfaces in the graph.
C11_AsStated ==
  (acall.op = FN_sf /\ aresult = "returned") =>
  \A x, y \in CPsOn0(RemovedId) : \A lx \in LinksOn0(x), ly \in LinksOn0(y) :
  \A fx \in CPsOn0(lx), fy \in CPsOn0(ly) :
    TwoLinkedInterfaces(x, y, lx, ly, fx, fy) =>
      /\ {RemovedId, x, y, lx, ly} \cap gnodes = {}
      /\ {fx, fy} \subseteq gnodes

\* C11: removing such a SwitchFabric removes it, both interfaces and both
\* Links; a far-end interface stays in the graph unless it is also a parent
\* interface all of whose children are interfaces of the removed switch
\* fabric.
C11_SwitchFabricWithTwoLinks ==
  (acall.op = FN_sf /\ aresult = "returned") =>
  \A x, y \in CPsOn0(RemovedId) : \A lx \in LinksOn0(x), ly \in LinksOn0(y) :
  \A fx \in CPsOn0(lx), fy \in CPsOn0(ly) :
    TwoLinkedInterfaces(x, y, lx, ly, fx, fy) =>
      /\ {RemovedId, x, y, lx, ly} \cap gnodes = {}
      /\ \A f \in {fx, fy} :
           f \in gnodes <=> ~(CPsOn0(f) # {} /\ CPsOn0(f) \subseteq {x, y})

C11_Witness ==
  /\ acall.op = FN_sf /\ aresult = "returned"
  /\ \E x, y \in CPsOn0(RemovedId) : \E lx \in LinksOn0(x), ly \in LinksOn0(y) :
     \E fx \in CPsOn0(lx), fy \in CPsOn0(ly) :
       /\ TwoLinkedInterfaces(x, y, lx, ly, fx, fy)
       /\ {fx, fy} \subseteq gnodes
       /\ fx # fy

\* the interfaces and links remove_cp_and_links(id) is to delete, read on
\* the graph as it was when the call was made
ToDelete0(id) ==
  LET ifs == {id} \cup {p \in CPsOn0(id) : Cardinality(CPsOn0(p)) = 1}
  IN ifs \cup {l \in UNION {LinksOn0(i) : i \in ifs} :
                 Cardinality(CPsOn0(l)) = 2}

\* C27: in a call remove_cp_and_links(id) made on a node of the graph, no
\* node is deleted before the reads are over; the set collected is the one
\* determined on the graph as it was at the start of the call; only nodes of
\* that set are deleted; and the call returns having deleted exactly that set.
C27_TwoPhase ==
  (acall.op = FN_cp /\ RemovedId \in g0nodes) =>
    /\ (Running /\ Top.phase = "enter") => (gnodes = g0nodes /\ gedges = g0edges)
    /\ (Running /\ Top.phase = "delete") =>
         Top.todo = ToDelete0(RemovedId) \ Removed
    /\ Removed \subseteq ToDelete0(RemovedId)
    /\ aresult # "raised"
    /\ aresult = "returned" => Removed = ToDelete0(RemovedId)

C27_Witness ==
  /\ acall.op = FN_cp /\ aresult = "returned"
  /\ HasClass(g0nodes, RemovedId, CLASS_ConnectionPoint)
  /\ Cardinality(Removed) = 4
  /\ \E l \in Removed : LabelOf(l) = CLASS_Link

\* C29: a call of remove_network_node_with_components_sfs_cps_and_links,
\* remove_component_with_sfs_cps_and_links or remove_sf_with_cps_and_links
\* on a node of the graph that has the class the operation requires does not
\* end with an exception: every node the cascade reads or deletes is still
\* in the graph at that moment.
C29_CascadeCompletes ==
  ( /\ acall.op \in {FN_node, FN_comp, FN_sf}
    /\ HasClass(g0nodes, RemovedId,
                CASE acall.op = FN_node -> CLASS_NetworkNode
                  [] acall.op = FN_comp -> CLASS_Component
                  [] OTHER -> CLASS_SwitchFabric) )
    => aresult # "raised"

\* C30: at no moment of a call remove_cp_and_links(id), whatever the node id
\* is, is a NetworkNode, Component or SwitchFabric node deleted.
C30_OnlyInterfacesAndLinksDeleted ==
  acall.op = FN_cp =>
    \A x \in Removed : LabelOf(x) \in {CLASS_ConnectionPoint, CLASS_Link}

\* the nodes contained in the targets of the prune, and the interfaces
\* among them
PrunedSubtrees0 ==
  UNION {Subtree0(t) : t \in acall.failed \cap g0nodes \cap NetworkNodeIds}

\* a node that depends on the targets alone: a node of a target's containment
\* subtree, or a Link that has interfaces, all of them in such subtrees
ExclusivelyDependent0(x) ==
  \/ x \in acall.failed
  \/ x \in PrunedSubtrees0
  \/ /\ x \in LinkIds
     /\ CPsOn0(x) # {}
     /\ CPsOn0(x) \subseteq PrunedSubtrees0

\* a Link the cascade rule lets go with its interfaces: some of them have
\* been removed and at most one is left
LeftDangling0(x) ==
  /\ x \in LinkIds
  /\ CPsOn0(x) \cap Removed # {}
  /\ Cardinality(CPsOn0(x) \ Removed) <= 1

\* C25: prune(s) does not fail; when it has returned, every NetworkNode and
\* Link in state s and every node that depends on those alone is gone; at
\* no moment of the call is another NetworkNode removed, and when it has
\* returned no other Link is gone but those left dangling; and a second
\* prune(s) after one that returned leaves the graph as it is.
C25_Prune ==
  acall.op = FN_prune =>
    /\ aresult # "raised"
    /\ aresult = "returned" =>
         \A x \in g0nodes : ExclusivelyDependent0(x) => x \notin gnodes
    /\ \A x \in Removed \cap NetworkNodeIds : x \in acall.failed
    /\ aresult = "returned" =>
         \A x \in Removed \cap LinkIds :
           ExclusivelyDependent0(x) \/ LeftDangling0(x)
    /\ acall.again => (gnodes = g0nodes /\ gedges = g0edges)

(***************************************************************************)
(* Properties of the add_* and build_deep_* operations (SpecBuild)         *)
(***************************************************************************)
AddFns == {FN_add_node, FN_add_link, FN_add_comp, FN_add_sf, FN_add_if}

\* another node of the graph had the label and the Name of node id when the
\* call was made
NameTaken0(id) ==
  \E m \in g0nodes \ {id} : LabelOf(m) = LabelOf(id) /\ NameOf(m) = NameOf(id)

\* C12: after any sequence of add_* calls no two nodes of the graph share
\* label and Name, and an add_* call for a sliver whose label and Name are
\* taken does not return normally and does not add the sliver's node.
C12_UniqueNames ==
  /\ \A x, y \in gnodes :
       (LabelOf(x) = LabelOf(y) /\ NameOf(x) = NameOf(y)) => x = y
  /\ (acall.op \in AddFns /\ NameTaken0(RemovedId))
       => (aresult # "returned" /\ RemovedId \notin gnodes)

\* C13: no operation is partially applied: when add_network_node_sliver,
\* add_network_link_sliver or a cascading removal ends with an error, the
\* nodes and links of the graph are as they were when it was called.  Stated
\* for an interpreter that executes assert statements.
C13_NoPartialApplication ==
  (/\ debug /\ aresult = "raised"
   /\ acall.op \in {FN_add_node, FN_add_link, FN_node, FN_comp, FN_sf})
    => (gnodes = g0nodes /\ gedges = g0edges)

\* the nodes of class cls one rel link from x
OneLinkFrom(x, rel, cls) ==
  {m \in gnodes : LabelOf(m) = cls /\ [ends |-> {x, m}, rel |-> rel] \in gedges}

\* the names of the slivers of an *Info collection
NamesIn(info) == {sl.name : sl \in info.items}

\* the switch fabric slivers `info` are those of the SwitchFabric nodes one
\* has link from x, each with the interfaces one connects link from it
MirrorsSwitchFabrics(info, x) ==
  /\ NamesIn(info) = {NameOf(sf) : sf \in OneLinkFrom(x, REL_HAS, CLASS_SwitchFabric)}
  /\ \A sf \in OneLinkFrom(x, REL_HAS, CLASS_SwitchFabric) :
       \E sl \in info.items :
         /\ sl.name = NameOf(sf)
         /\ NamesIn(sl.interface_info) =
              {NameOf(i) : i \in OneLinkFrom(sf, REL_CONNECTS,
                                             CLASS_ConnectionPoint)}

\* the nested names of the sliver with node_id id handed to
\* add_network_node_sliver
SliverAdded(id) ==
  LET sfsl(sf) == [name |-> NameOf(sf),
                   interface_info |->
                     Info({[name |-> NameOf(i)] : i \in SliverInterfaces(sf)})]
      csl(c) == [name |-> NameOf(c),
                 switch_fabric_info |->
                   Info({sfsl(sf) : sf \in SliverSwitchFabrics(c)})]
  IN [name |-> NameOf(id),
      attached_components_info |-> Info({csl(c) : c \in SliverComponents(id)}),
      switch_fabric_info |-> Info({sfsl(sf) : sf \in SliverSwitchFabrics(id)})]

\* C16: the sliver build_deep_node_sliver(n) returns mirrors the graph: its
\* components are the Component nodes one has link from n, their and its own
\* switch fabrics the SwitchFabric nodes one has link from them, and each
\* switch fabric's interfaces the ConnectionPoint nodes one connects link
\* from it; and the deep sliver of a node that add_network_node_sliver has
\* just added has the nested names of the sliver added.
C16_DeepSliverMirrorsGraph ==
  /\ (acall.op = FN_build_node /\ aresult = "returned") =>
       /\ aret.name = NameOf(RemovedId)
       /\ NamesIn(aret.attached_components_info) =
            {NameOf(c) : c \in OneLinkFrom(RemovedId, REL_HAS, CLASS_Component)}
       /\ \A c \in OneLinkFrom(RemovedId, REL_HAS, CLASS_Component) :
            \E sl \in aret.attached_components_info.items :
              /\ sl.name = NameOf(c)
              /\ MirrorsSwitchFabrics(sl.switch_fabric_info, c)
       /\ MirrorsSwitchFabrics(aret.switch_fabric_info, RemovedId)
  /\ (acall.op = FN_add_node /\ aresult = "returned") =>
       BuildDeepNodeSliver(gnodes, gedges, RemovedId) = SliverAdded(RemovedId)

C16_Witness ==
  /\ acall.op = FN_build_node /\ aresult = "returned" /\ RemovedId = "a"
  /\ aret = SliverAdded("a")
  /\ aret.attached_components_info.present
  /\ \E sl \in aret.attached_components_info.items :
       \E sf \in sl.switch_fabric_info.items :
         NamesIn(sf.interface_info) = {"p1", "p2"}

\* the class each operation requires of its starting node
RequiredClass ==
  [fn \in {FN_node, FN_comp, FN_sf, FN_link,
           FN_build_node, FN_build_comp, FN_build_sf} |->
     CASE fn \in {FN_node, FN_build_node} -> CLASS_NetworkNode
       [] fn \in {FN_comp, FN_build_comp} -> CLASS_Component
       [] fn \in {FN_sf, FN_build_sf} -> CLASS_SwitchFabric
       [] OTHER -> CLASS_Link]

\* the call in progress or just ended is one of the class-checked operations
\* on a node of the graph that is not of the required class
WrongClassCall ==
  /\ acall.op \in DOMAIN RequiredClass
  /\ RemovedId \in g0nodes
  /\ LabelOf(RemovedId) # RequiredClass[acall.op]

\* C17: build_deep_node_sliver, build_deep_component_sliver,
\* build_deep_sf_sliver, remove_network_node_with_components_sfs_cps_and_links,
\* remove_component_with_sfs_cps_and_links, remove_sf_with_cps_and_links and
\* remove_network_link, called on a node that is not of the class they
\* require, end with an exception, return no sliver and at no moment of the
\* call change the graph.
C17_ClassCheckedFirst ==
  WrongClassCall =>
    /\ aresult \in {"running", "raised"}
    /\ ~Running => aresult = "raised"
    /\ acall.op \in {FN_build_node, FN_build_comp, FN_build_sf} => aret = NoSliver
    /\ gnodes = g0nodes /\ gedges = g0edges

C17_Witness ==
  /\ WrongClassCall /\ aresult = "raised"
  /\ acall.op = FN_link /\ RemovedId = "p1"
  /\ \E e \in gedges : "p1" \in e.ends

(***************************************************************************)
(* validate_graph (neo4j_property_graph.py)                                *)
(***************************************************************************)
\* Rules in one rules file.
MaxRules == 2
\* JSON properties present on the first node of a validated graph.
MaxJsonProps == 1

PROP_LABELS == "Labels"
PROP_CAPACITIES == "Capacities"
PROP_LABEL_DELEGATIONS == "LabelDelegations"
PROP_CAPACITY_DELEGATIONS == "CapacityDelegations"
\* line 57
JSON_PROPERTY_NAMES ==
  <<PROP_LABELS, PROP_CAPACITIES, PROP_LABEL_DELEGATIONS,
    PROP_CAPACITY_DELEGATIONS>>

JsonNames == {JSON_PROPERTY_NAMES[i] : i \in 1..Len(JSON_PROPERTY_NAMES)}

\* property values: two JSON texts, a text that is not JSON, and the text
\* str(None) writes
JsonTexts == {"{}", "null", "{x", "None"}

\* json.loads(v): whether it returns rather than raises JSONDecodeError
JsonLoads(v) == v \in {"{}", "null"}

\* what session.run(rule).single().value() yields: a boolean or null
RuleValues == {"true", "false", "null"}

RuleMsgs == <<"m1", "m2", "m3">>

\* the rules files: lists of rules, each with its message and the value its
\* query yields on the validated graph
RulesFiles ==
  UNION {[1..n -> RuleValues] : n \in 0..MaxRules}

RulesDict(f) == [i \in 1..Len(f) |-> [msg |-> RuleMsgs[i], rule |-> f[i]]]

\* the maps of JSON properties a node may carry
JsonPropMaps(max) ==
  UNION {[d -> JsonTexts] : d \in {e \in SUBSET JsonNames : Cardinality(e) <= max}}

SecondNodeJsonProps ==
  {<<>>, [Capacities |-> "{x"], [Labels |-> "None"],
   [LabelDelegations |-> "{}"]}

\* an imported graph g1 of two nodes; the second one may lack its labels
ValidatedStores ==
  {{[uid |-> 1, labels |-> {LABEL_GraphNode, "NetworkNode"},
     props |-> SetProps(Stamp(FileNodes("GA")[1], "g1"), j1)],
    [uid |-> 2, labels |-> IF l THEN {LABEL_GraphNode, "Component"} ELSE {},
     props |-> SetProps(Stamp(FileNodes("GA")[2], "g1"), j2)]} :
     j1 \in JsonPropMaps(MaxJsonProps), j2 \in SecondNodeJsonProps,
     l \in BOOLEAN}

InitValidate ==
  /\ store \in ValidatedStores
  /\ rels = {}
  /\ InitIdle
  /\ InitGraphEmpty

\* what a step of validate_graph leaves alone
ValidateFrame ==
  UNCHANGED <<store, rels, files, ncalls, nuuid, nupdates, retry, assigned_id,
              host_file, attempts, succeeded, residuals, loaded, fresh_id, ret>>

\* validate_graph raises
ValidateRaise(res, e) ==
  /\ pc' = "done"
  /\ result' = res
  /\ err_gid' = call.graph_id
  /\ err' = e

\* validate_graph(graph_id): lines 358-360, and json.load of the rules file
ValidateGraph(gid, f) ==
  /\ Quiescent
  /\ call' = [op |-> "validate_graph", graph_id |-> gid, rules |-> RulesDict(f)]
  /\ pc' = "rules"
  /\ result' = "none"
  /\ err_gid' = NoGraphId
  /\ nrules' = 0
  /\ vtodo' = <<>>
  /\ err' = NoError
  /\ ValidateFrame

RuleFails_NotTrue(v) == v # "true"

\* line 300: v is False
RuleFails(v) == v = "false"

\* _validate_graph, one turn of the loop: lines 295-301
RunRule ==
  /\ pc = "rules" /\ nrules < Len(call.rules)
  /\ LET r == call.rules[nrules + 1]
     IN /\ nrules' = nrules + 1
        /\ IF RuleFails(r.rule)
             THEN ValidateRaise("raised_import", [kind |-> "rule", msg |-> r.msg])
             ELSE UNCHANGED <<pc, result, err_gid, err>>
  /\ UNCHANGED <<call, vtodo>>
  /\ ValidateFrame

\* the lists list_all_node_ids may return: the NodeIDs in some order
NodeLists(s, gid) ==
  LET ids == DOMAIN CollectNodeIds(s, gid)
  IN {l \in [1..Cardinality(ids) -> ids] : \A i, j \in DOMAIN l : l[i] = l[j] => i = j}

\* the turns of the two loops of lines 345-346, in order
NodePropertyPairs(l) ==
  [k \in 1..(Len(l) * Len(JSON_PROPERTY_NAMES)) |->
     <<l[((k - 1) \div Len(JSON_PROPERTY_NAMES)) + 1],
       JSON_PROPERTY_NAMES[((k - 1) % Len(JSON_PROPERTY_NAMES)) + 1]>>]

\* _validate_all_json_properties up to its loops: lines 342-344
ListNodesToValidate ==
  /\ pc = "rules" /\ nrules = Len(call.rules)
  /\ IF DOMAIN CollectNodeIds(store, call.graph_id) = {}
       THEN /\ ValidateRaise("raised_query", [kind |-> "list"])
            /\ UNCHANGED vtodo
       ELSE /\ \E l \in NodeLists(store, call.graph_id) :
                 vtodo' = NodePropertyPairs(l)
            /\ pc' = "json"
            /\ UNCHANGED <<result, err_gid, err>>
  /\ UNCHANGED <<call, nrules>>
  /\ ValidateFrame

ValidateJsonProperty_NoneChecked(props, prop_name) ==
  IF prop_name \notin DOMAIN props
    THEN <<>>
    ELSE IF JsonLoads(props[prop_name]) THEN <<>> ELSE <<props[prop_name]>>

\* _validate_json_property after get_node_properties, strict not set: lines
\* 319-333; <<>> stands for None
ValidateJsonProperty(props, prop_name) ==
  IF prop_name \notin DOMAIN props
    THEN <<>>
    ELSE IF props[prop_name] # "None"
      THEN IF JsonLoads(props[prop_name]) THEN <<>> ELSE <<props[prop_name]>>
      ELSE <<>>

\* one turn of the inner loop of _validate_all_json_properties: lines 346-350
ValidateNextProperty ==
  /\ pc = "json" /\ vtodo # <<>>
  /\ LET node == Head(vtodo)[1]
         prop == Head(vtodo)[2]
         found == MatchNode(store, call.graph_id, node)
     IN IF found = {}
          THEN /\ ValidateRaise("raised_query",
                                [kind |-> "node", node_id |-> node])
               /\ UNCHANGED vtodo
          ELSE \E n \in found :
                 LET prop_val == ValidateJsonProperty(n.props, prop)
                 IN IF prop_val # <<>>
                      THEN /\ ValidateRaise("raised_import",
                                            [kind |-> "json", node_id |-> node,
                                             prop |-> prop, value |-> prop_val[1]])
                           /\ UNCHANGED vtodo
                      ELSE /\ vtodo' = Tail(vtodo)
                           /\ UNCHANGED <<pc, result, err_gid, err>>
  /\ UNCHANGED <<call, nrules>>
  /\ ValidateFrame

\* validate_graph returns
ValidateDone ==
  /\ pc = "json" /\ vtodo = <<>>
  /\ pc' = "done"
  /\ result' = "returned"
  /\ UNCHANGED <<call, err_gid, nrules, vtodo, err>>
  /\ ValidateFrame

NextValidate ==
  \/ /\ \E gid \in CallerGraphIds, f \in RulesFiles : ValidateGraph(gid, f)
     /\ UNCHANGED <<avars, dvars>>
  \/ RunRule /\ UNCHANGED <<avars, dvars>>
  \/ ListNodesToValidate /\ UNCHANGED <<avars, dvars>>
  \/ ValidateNextProperty /\ UNCHANGED <<avars, dvars>>
  \/ ValidateDone /\ UNCHANGED <<avars, dvars>>

SpecValidate == InitValidate /\ [][NextValidate]_vars

(***************************************************************************)
(* Claims about validate_graph (SpecValidate)                              *)
(***************************************************************************)
Validating == call.op = "validate_graph"

\* the rules of the file in flight whose query yields false
FalseRules == {i \in 1..Len(call.rules) : call.rules[i].rule = "false"}

FirstFalseRule == CHOOSE i \in FalseRules : \A j \in FalseRules : i <= j

\* C18: validate_graph runs the rules in file order and stops at the first one
\* that yields false, raising an import error with that rule's message; no
\* rule after it is run; when no rule yields false all rules are run and no
\* rule error is raised; the JSON pass starts only after every rule has
\* passed, so a graph that fails both reports the rule's message.
C18_FirstFalseRuleReported ==
  Validating =>
    /\ nrules <= Len(call.rules)
    /\ \A i \in FalseRules : nrules <= i
    /\ (pc = "json" \/ vtodo # <<>> \/ err.kind \in {"list", "node", "json"}) =>
         (FalseRules = {} /\ nrules = Len(call.rules))
    /\ (pc = "done" /\ FalseRules # {}) =>
         /\ result = "raised_import"
         /\ err = [kind |-> "rule", msg |-> call.rules[FirstFalseRule].msg]
         /\ nrules = FirstFalseRule
    /\ (pc = "done" /\ FalseRules = {}) => err.kind # "rule"

C18_Witness ==
  /\ Validating /\ pc = "done" /\ call.graph_id = "g1"
  /\ Len(call.rules) = 2
  /\ call.rules[1].rule = "null" /\ call.rules[2].rule = "false"
  /\ err = [kind |-> "rule", msg |-> "m2"]
  /\ \E n \in MatchGraph(store, "g1") :
       HasProp(n, PROP_CAPACITIES, "{x")

\* the nodes of the validated graph
ValidatedNodes == MatchGraph(store, call.graph_id)

\* the error raised names node nid and property p
ErrorNames(nid, p) ==
  /\ result = "raised_import" /\ err.kind = "json"
  /\ err.node_id = nid /\ err.prop = p

\* p is present on the node nid and its value does not parse as JSON
PresentUnparseable(nid, p) ==
  \E n \in ValidatedNodes :
    /\ HasProp(n, PROP_NodeID, nid)
    /\ p \in DOMAIN n.props /\ ~JsonLoads(n.props[p])

\* the same, for a value other than the text None
Offending(nid, p) ==
  \E n \in ValidatedNodes :
    /\ HasProp(n, PROP_NodeID, nid)
    /\ p \in DOMAIN n.props /\ n.props[p] # "None" /\ ~JsonLoads(n.props[p])

MaxEdits == 3

DiffNodeNames == {"NodeA", "NodeB"}
DiffComponentNames == {"gpu1", "nic2"}
DiffServiceNames == {"bridge2", "ns2"}
DiffInterfaceNames == {"nic6-p1"}

\* a component belongs to a node of the topology, a connected interface to
\* one of its services
Topologies ==
  {t \in [nodes : SUBSET DiffNodeNames,
          components : SUBSET (DiffNodeNames \X DiffComponentNames),
          services : SUBSET DiffServiceNames,
          interfaces : SUBSET (DiffServiceNames \X DiffInterfaceNames)] :
     /\ \A c \in t.components : c[1] \in t.nodes
     /\ \A i \in t.interfaces : i[1] \in t.services}

InitDiff ==
  /\ store = {}
  /\ rels = {}
  /\ InitNoCall
  /\ InitGraphEmpty
  /\ topoA \in Topologies
  /\ topoB = topoA
  /\ nedits = 0
  /\ diff_res = NoDiff

\* a variant that takes after - before in each category by itself
DiffTuple_PerCategory(x, y) ==
  [nodes |-> y.nodes \ x.nodes,
   components |-> y.components \ x.components,
   services |-> y.services \ x.services,
   interfaces |-> y.interfaces \ x.interfaces]

\* what y has and x has not: nodes and services as such; the components of
\* the nodes x has, and the interfaces of the services x has (the nested
\* entities of a node or service x has not are not reported separately)
DiffTuple(x, y) ==
  [nodes |-> y.nodes \ x.nodes,
   components |-> {c \in y.components \ x.components : c[1] \in x.nodes},
   services |-> y.services \ x.services,
   interfaces |-> {i \in y.interfaces \ x.interfaces : i[1] \in x.services}]

\* before.diff(after)
Diff(before, after) ==
  [kind |-> "diff",
   added |-> DiffTuple(before, after),
   removed |-> DiffTuple(after, before)]

Edit(t) ==
  /\ diff_res = NoDiff
  /\ nedits < MaxEdits
  /\ topoB' = t
  /\ nedits' = nedits + 1
  /\ UNCHANGED <<topoA, diff_res>>

\* topoB.add_node(name=n)
TopoAddNode(n) ==
  /\ n \notin topoB.nodes
  /\ Edit([topoB EXCEPT !.nodes = @ \cup {n}])

\* topoB.nodes[n].add_component(name=c)
TopoAddComponent(n, c) ==
  /\ n \in topoB.nodes
  /\ <<n, c>> \notin topoB.components
  /\ Edit([topoB EXCEPT !.components = @ \cup {<<n, c>>}])

\* topoB.remove_node(name=n): the node goes with its components
TopoRemoveNode(n) ==
  /\ n \in topoB.nodes
  /\ Edit([topoB EXCEPT !.nodes = @ \ {n},
                        !.components = {c \in @ : c[1] # n}])

\* topoB.add_network_service(name=s)
TopoAddNetworkService(s) ==
  /\ s \notin topoB.services
  /\ Edit([topoB EXCEPT !.services = @ \cup {s}])

\* topoB.remove_network_service(name=s)
TopoRemoveNetworkService(s) ==
  /\ s \in topoB.services
  /\ Edit([topoB EXCEPT !.services = @ \ {s},
                        !.interfaces = {i \in @ : i[1] # s}])

\* topoB.network_services[s].connect_interface(i)
TopoConnectInterface(s, i) ==
  /\ s \in topoB.services
  /\ <<s, i>> \notin topoB.interfaces
  /\ Edit([topoB EXCEPT !.interfaces = @ \cup {<<s, i>>}])

\* topoB.network_services[s].disconnect_interface(i)
TopoDisconnectInterface(s, i) ==
  /\ <<s, i>> \in topoB.interfaces
  /\ Edit([topoB EXCEPT !.interfaces = @ \ {<<s, i>>}])

\* diff_res = self.topoA.diff(self.topoB)
TopologyDiff ==
  /\ diff_res = NoDiff
  /\ diff_res' = Diff(topoA, topoB)
  /\ UNCHANGED <<topoA, topoB, nedits>>

NextDiff ==
  \/ /\ \E n \in DiffNodeNames : TopoAddNode(n)
     /\ UNCHANGED <<nvars, avars, wvars>>
  \/ /\ \E n \in DiffNodeNames, c \in DiffComponentNames : TopoAddComponent(n, c)
     /\ UNCHANGED <<nvars, avars, wvars>>
  \/ /\ \E n \in DiffNodeNames : TopoRemoveNode(n)
     /\ UNCHANGED <<nvars, avars, wvars>>
  \/ /\ \E sv \in DiffServiceNames : TopoAddNetworkService(sv)
     /\ UNCHANGED <<nvars, avars, wvars>>
  \/ /\ \E sv \in DiffServiceNames : TopoRemoveNetworkService(sv)
     /\ UNCHANGED <<nvars, avars, wvars>>
  \/ /\ \E sv \in DiffServiceNames, i \in DiffInterfaceNames :
          TopoConnectInterface(sv, i)
     /\ UNCHANGED <<nvars, avars, wvars>>
  \/ /\ \E sv \in DiffServiceNames, i \in DiffInterfaceNames :
          TopoDisconnectInterface(sv, i)
     /\ UNCHANGED <<nvars, avars, wvars>>
  \/ TopologyDiff /\ UNCHANGED <<nvars, avars, wvars>>

SpecDiff == InitDiff /\ [][NextDiff]_vars

(***************************************************************************)
(* Claims about Topology.diff (SpecDiff)                                   *)
(***************************************************************************)
EmptyDiffTuple == [nodes |-> {}, components |-> {}, services |-> {},
                   interfaces |-> {}]

\* topoB is topoA with the one component c added to a node topoA has
OnlyComponentAdded(c) ==
  /\ c \notin topoA.components
  /\ c[1] \in topoA.nodes
  /\ topoB = [topoA EXCEPT !.components = @ \cup {c}]

\* C26: in topoA.diff(topoB), a component topoB has and topoA has not is in
\* added.components, and its node is not in added.nodes, when topoA has its
\* node; when topoA has not, the component is not in added.components and
\* its node is in added.nodes.  When topoB is topoA with one component added
\* to a node topoA has, added.components is that component alone and every
\* other added and removed set is empty.
C26_DiffComponents ==
  diff_res # NoDiff =>
    /\ \A c \in topoB.components \ topoA.components :
         IF c[1] \in topoA.nodes
           THEN /\ c \in diff_res.added.components
                /\ c[1] \notin diff_res.added.nodes
                /\ c \notin diff_res.added.nodes
           ELSE /\ c \notin diff_res.added.components
                /\ c[1] \in diff_res.added.nodes
    /\ \A c \in DiffNodeNames \X DiffComponentNames :
         OnlyComponentAdded(c) =>
           /\ diff_res.added = [EmptyDiffTuple EXCEPT !.components = {c}]
           /\ diff_res.removed = EmptyDiffTuple

\* the diff of a topoB in which gpu1 was added to a node topoA has and a
\* node topoA has not was added with a component
C26_Witness ==
  /\ diff_res # NoDiff
  /\ \E n \in topoA.nodes : <<n, "gpu1">> \in diff_res.added.components
  /\ \E c \in topoB.components : c[1] \in diff_res.added.nodes

=============================================================================
